---------------------------- MODULE Spec2Model ----------------------------
(***************************************************************************)
(* State-machine model of the safeflow workflow orchestration core:        *)
(* OrchestrationEngine (engine.py), the node functions (nodes.py), the     *)
(* WorkflowState model (models.py), the tool service (tool_service.py) and *)
(* the WorkflowExecutor facade with its storage (executor.py, storage.py). *)
(*                                                                         *)
(* A WorkflowState is a mutable Python object.  The engine's run map and   *)
(* every in-memory checkpoint hold REFERENCES to such objects, so the      *)
(* model keeps a heap (ref -> object) and stores refs where the code does. *)
(* The node walk of _execute_simple_mode is modelled one node per step, so *)
(* that pause/cancel calls arriving from another thread between two node   *)
(* functions are behaviours of the model (the engine takes no lock).       *)
(***************************************************************************)
EXTENDS Naturals, Integers, Sequences, FiniteSets, Bags, TLC

VARIABLES
    workflows,    \* engine.workflows: run id -> [state |-> ref]
    checkpoints,  \* engine.checkpoints: run id -> sequence of checkpoint dicts
    heap,         \* the WorkflowState objects, by reference
    pc,           \* per run: the call walking it (with what it was asked and
                  \* the run's status and node when it was made) and the index
                  \* of its next node
    ncalls,       \* number of API calls and restarts so far (at most MaxCalls)
    registry,     \* the global ToolRegistry: registered tool ids, in order
    config,       \* WorkflowConfig: checkpoint.* and concurrency.max_parallel_tools
    db,           \* workflow_runs table: run id -> persisted row
    response,     \* what the step just taken returned, if it was a facade
                  \* call returning a WorkflowExecutionResponse, together
                  \* with the call it answers
    savedAt,      \* history: checkpoint id -> the value the state object had
                  \* when the checkpoint was saved
    nruns,        \* number of run ids drawn so far (uuid4 never repeats)
    nsaved,       \* per run: number of checkpoint ids drawn so far
    storage,      \* WorkflowStorage: "ok", "down" (create_pool and queries
                  \* raise) or "absent" (asyncpg is not installed)
    overdue,      \* the runs whose elapsed time exceeds their workflow timeout
    db_children,  \* the rows of the tables workflow_checkpoints and
                  \* task_executions: [table, workflow_id, id]
    deleted,      \* history: run id -> what the latest delete call on it found
    sched_tasks,  \* TaskScheduler: task id -> the Task and its scheduler
    task_run,     \* task id -> where its _execute_single_task coroutine is
    semaphore,    \* scheduler -> free permits of its asyncio.Semaphore
    threads,      \* task id -> executions of its function still running in
                  \* an executor thread after their attempt was abandoned
    schedule_call, \* scheduler -> its schedule_parallel call and what it returned
    other_task,   \* an asyncio task of the event loop that is no scheduler's
    tool_registry, \* ToolRegistry: the dicts _tools and _capabilities
    last_registered, \* history: tool id -> the adapter registered last for
                  \* it since the id was last removed
    scan_call,    \* the latest ToolService.scan_with_tool call: what it was
                  \* asked, the adapter runs it made and how it ended
    tool_exec,    \* the scan_with_multiple_tools call of a parallel-scan
                  \* node: its tools, the ones executing and the responses
    fn_call       \* the latest call of a function of the library that
                  \* touches no object: what was called, with what
                  \* arguments, and what it returned or raised

servicevars == <<tool_registry, last_registered, scan_call, tool_exec>>

(* What the engine, the facade and the schedulers never change: what is    *)
(* set when the objects are constructed, and the tool service's state.     *)
fixed == <<registry, config, storage, servicevars, fn_call>>

schedvars == <<sched_tasks, task_run, semaphore, threads, schedule_call, other_task>>

envvars == <<overdue, db_children, deleted>>

enginevars == <<workflows, checkpoints, heap, pc, ncalls, db, response, savedAt,
                nruns, nsaved, envvars>>

vars == <<workflows, checkpoints, heap, pc, ncalls, registry, config, db,
          response, savedAt, nruns, nsaved, storage, overdue, db_children,
          deleted, sched_tasks,
          task_run, semaphore, threads, schedule_call, other_task,
          tool_registry, last_registered, scan_call, tool_exec, fn_call>>

---------------------------------------------------------------------------
(* Bounds of the model                                                     *)

MaxCalls == 3
MaxCheckpoints == 3
MaxParallel == 2     \* largest max_parallel_tools
MaxRetries == 1      \* largest Task.max_retries

(* The run ids uuid4 hands out, in the order it hands them out.            *)
RunIdOrder == <<"run-a", "run-b">>

RunIds == {RunIdOrder[i] : i \in 1..Len(RunIdOrder)}

---------------------------------------------------------------------------
(* models.py: enumerations                                                 *)

TaskStatus == {"PENDING", "RUNNING", "SUCCESS", "FAILED", "RETRY", "PAUSED",
               "CANCELLED", "SKIPPED"}

WorkflowType == {"CODE_COMMIT", "DEPENDENCY_UPDATE", "EMERGENCY_VULN",
                 "RELEASE_REGRESSION", "CUSTOM"}

None == "None"       \* a string-typed field that is None
NoId == <<>>         \* a checkpoint id that is None (ids are tuples)

---------------------------------------------------------------------------
(* Stub adapters the registry can hold.  An adapter's run() either returns *)
(* a list of UnifiedVulnerability models, raises an AdapterError, or (a    *)
(* misbehaving parse_output) returns plain dicts, which have no            *)
(* model_dump().  confidence_score is severity.confidence_score in tenths, *)
(* NoScore when the dumped severity dict has no such key.                  *)

NoScore == -1

AdapterBehaviour ==
    [ semgrep |-> [kind |-> "models", scores |-> <<8, NoScore>>],
      syft    |-> [kind |-> "models", scores |-> <<1>>],
      broken  |-> [kind |-> "error",  scores |-> <<>>],
      rawdict |-> [kind |-> "dicts",  scores |-> <<5>>] ]

DefaultRegistry == <<"semgrep", "syft", "broken", "rawdict">>

(* The requests the runs are created from: workflow type, target path and  *)
(* tool id list.                                                           *)
Requests ==
    { [workflow_type |-> "CODE_COMMIT",        path |-> "/src", tool_ids |-> <<"semgrep">>],
      [workflow_type |-> "CODE_COMMIT",        path |-> "/src", tool_ids |-> <<"semgrep", "rawdict">>],
      [workflow_type |-> "DEPENDENCY_UPDATE",  path |-> "",     tool_ids |-> <<"syft">>],
      [workflow_type |-> "EMERGENCY_VULN",     path |-> "/src", tool_ids |-> <<"semgrep", "broken">>],
      [workflow_type |-> "RELEASE_REGRESSION", path |-> "/src", tool_ids |-> <<"semgrep", "syft">>],
      [workflow_type |-> "CUSTOM",             path |-> "/src", tool_ids |-> <<"nosuchtool">>] }

---------------------------------------------------------------------------
(* models.py: WorkflowState and its methods                                *)

NewWorkflowState_running(workflow_id, req) ==
    [ workflow_id           |-> workflow_id,
      workflow_type         |-> req.workflow_type,
      target_path           |-> req.path,
      status                |-> "RUNNING",
      current_node          |-> None,
      tool_ids              |-> req.tool_ids,
      node_results          |-> <<>>,
      vulnerabilities       |-> <<>>,
      errors                |-> <<>>,
      retry_count           |-> 0,
      checkpoint_id         |-> NoId,
      requires_human_review |-> FALSE,
      human_review_data     |-> <<>>,
      start_time            |-> FALSE,
      end_time              |-> FALSE ]

NewWorkflowState(workflow_id, req) ==
    [ workflow_id           |-> workflow_id,
      workflow_type         |-> req.workflow_type,
      target_path           |-> req.path,
      status                |-> "PENDING",
      current_node          |-> None,
      tool_ids              |-> req.tool_ids,
      node_results          |-> <<>>,
      vulnerabilities       |-> <<>>,
      errors                |-> <<>>,
      retry_count           |-> 0,
      checkpoint_id         |-> NoId,
      requires_human_review |-> FALSE,
      human_review_data     |-> <<>>,    \* <<>> is None, <<d>> is the dict d
      start_time            |-> FALSE,   \* TRUE once a timestamp is set
      end_time              |-> FALSE ]

(* Entries of the error list are tuples of strings.                        *)
add_error(s, error) == [s EXCEPT !.errors = Append(@, <<error>>)]

(* add_node_result that keeps a FAILED result out of the log.               *)
add_node_result_unlogged(s, result) ==
    LET s1 == [s EXCEPT !.node_results = Append(@, result),
                        !.current_node = result.node_name]
    IN  IF result.status = "FAILED"
        THEN [s EXCEPT !.errors = Append(@, <<"node failed", result.node_name, result.error>>)]
        ELSE s1

(* WorkflowState.add_node_result: a FAILED result adds an error as well.   *)
add_node_result(s, result) ==
    LET s1 == [s EXCEPT !.node_results = Append(@, result),
                        !.current_node = result.node_name]
    IN  IF result.status = "FAILED"
        THEN [s1 EXCEPT !.errors = Append(@, <<"node failed", result.node_name, result.error>>)]
        ELSE s1

is_completed(s) == s.status \in {"SUCCESS", "FAILED", "CANCELLED"}

is_paused(s) == s.status = "PAUSED"

---------------------------------------------------------------------------
(* tool_registry.py / tool_service.py                                      *)

get_tool_ids(reg) == reg

is_registered(reg, tool_id) == \E i \in 1..Len(reg) : reg[i] = tool_id

(* BaseAdapter._generate_vulnerability_id: f"vuln_{scan_id}_{tool_id}_{i}" *)
generate_vulnerability_id(scan_session_id, tool_id, index) ==
    <<"vuln", scan_session_id, tool_id, index>>

(* ToolService.scan_with_tool: never raises; an unknown tool or an adapter *)
(* error gives success = FALSE with no vulnerabilities.                    *)
scan_with_tool(reg, tool_id, scan_id) ==
    IF ~is_registered(reg, tool_id)
    THEN [tool_id |-> tool_id, success |-> FALSE, kind |-> "models",
          vulnerabilities |-> <<>>, error |-> "tool not found"]
    ELSE LET b == AdapterBehaviour[tool_id]
         IN  IF b.kind = "error"
             THEN [tool_id |-> tool_id, success |-> FALSE, kind |-> "models",
                   vulnerabilities |-> <<>>, error |-> "adapter error"]
             ELSE [tool_id |-> tool_id, success |-> TRUE, kind |-> b.kind,
                   vulnerabilities |->
                       [i \in 1..Len(b.scores) |->
                           [vulnerability_id |->
                                generate_vulnerability_id(scan_id, tool_id, i - 1),
                            source_tool |-> tool_id,
                            confidence_score |-> b.scores[i]]],
                   error |-> None]

(* ToolService.scan_with_multiple_tools: an empty request.tool_ids means   *)
(* all registered tools; the tools are scanned one after the other.        *)
scan_with_multiple_tools(reg, tool_ids, scan_id) ==
    LET ids == IF tool_ids = <<>> THEN get_tool_ids(reg) ELSE tool_ids
    IN  [i \in 1..Len(ids) |-> scan_with_tool(reg, ids[i], scan_id)]

---------------------------------------------------------------------------
(* nodes.py                                                                *)

_create_node_result(node_name, node_type, status, error, tool_results, output) ==
    [ node_name |-> node_name, node_type |-> node_type, status |-> status,
      error |-> error, tool_results |-> tool_results, output |-> output ]

ToolExecutionResult(resp) ==
    [ tool_id |-> resp.tool_id,
      status |-> IF resp.success THEN "SUCCESS" ELSE "FAILED",
      vulnerability_count |-> Len(resp.vulnerabilities),
      error |-> resp.error ]

RECURSIVE Flatten(_)
Flatten(seqs) ==
    IF seqs = <<>> THEN <<>> ELSE Head(seqs) \o Flatten(Tail(seqs))

(* The vulnerabilities a scan node collects from its responses: those of   *)
(* the successful ones, in response order.                                 *)
CollectVulnerabilities(responses) ==
    Flatten([i \in 1..Len(responses) |->
                IF responses[i].success THEN responses[i].vulnerabilities ELSE <<>>])

(* vuln.model_dump() raises AttributeError on a plain dict.                *)
DumpRaises(responses) ==
    \E i \in 1..Len(responses) :
        /\ responses[i].success
        /\ responses[i].kind = "dicts"
        /\ responses[i].vulnerabilities # <<>>

initialize_node(s, reg) ==
    IF s.target_path = ""
    THEN LET error_msg == "initialize failed"
             s1 == add_node_result(s,
                       _create_node_result("initialize", "initialize", "FAILED",
                                           error_msg, <<>>, <<>>))
             s2 == [s1 EXCEPT !.status = "FAILED"]
         IN  add_error(s2, error_msg)
    ELSE LET s1 == [s EXCEPT !.tool_ids = IF @ = <<>> THEN get_tool_ids(reg) ELSE @]
             s2 == [s1 EXCEPT !.status = "RUNNING",
                              !.start_time = TRUE,
                              !.current_node = "initialize"]
         IN  add_node_result(s2,
                 _create_node_result("initialize", "initialize", "SUCCESS",
                                     None, <<>>, <<Len(s2.tool_ids)>>))

(* Shared body of the two scan nodes: the responses are turned into tool   *)
(* results and vulnerabilities; an exception leaves the state's status and *)
(* vulnerabilities as they were.                                           *)
ScanNodeBody(s, node_name, node_type, responses, error_msg) ==
    IF DumpRaises(responses)
    THEN LET s1 == add_node_result(s,
                       _create_node_result(node_name, node_type, "FAILED",
                                           error_msg, <<>>, <<>>))
         IN  add_error(s1, error_msg)
    ELSE LET all_vulnerabilities == CollectVulnerabilities(responses)
             tool_results == [i \in 1..Len(responses) |-> ToolExecutionResult(responses[i])]
             s1 == [s EXCEPT !.vulnerabilities = @ \o all_vulnerabilities]
         IN  add_node_result(s1,
                 _create_node_result(node_name, node_type, "SUCCESS", None,
                                     tool_results, <<Len(all_vulnerabilities)>>))

single_scan_node(s, reg) ==
    ScanNodeBody(s, "single_scan", "scan",
        [i \in 1..Len(s.tool_ids) |-> scan_with_tool(reg, s.tool_ids[i], s.workflow_id)],
        "scan failed")

parallel_scan_node(s, reg) ==
    ScanNodeBody(s, "parallel_scan", "parallel_scan",
        scan_with_multiple_tools(reg, s.tool_ids, s.workflow_id),
        "parallel scan failed")

result_collection_node(s) ==
    add_node_result(s,
        _create_node_result("collect", "collect", "SUCCESS", None, <<>>,
                            <<Len(s.vulnerabilities)>>))

ConfidenceThreshold == 3     \* 0.3, in tenths

(* vuln.get("severity", {}).get("confidence_score", 0)                     *)
SeverityConfidence(vuln) ==
    IF vuln.confidence_score = NoScore THEN 0 ELSE vuln.confidence_score

validation_node(s) ==
    LET validated_vulns ==
            SelectSeq(s.vulnerabilities,
                      LAMBDA v : SeverityConfidence(v) >= ConfidenceThreshold)
        s1 == [s EXCEPT !.vulnerabilities = validated_vulns]
    IN  add_node_result(s1,
            _create_node_result("validate", "validate", "SUCCESS", None, <<>>,
                \* original_count, validated_count, filtered_count
                <<Len(s.vulnerabilities), Len(validated_vulns),
                  Len(s.vulnerabilities) - Len(validated_vulns)>>))

human_review_node(s) ==
    LET data == <<Len(s.vulnerabilities)>>      \* total_vulnerabilities
        s1 == [s EXCEPT !.requires_human_review = TRUE,
                        !.status = "PAUSED",
                        !.human_review_data = <<data>>]
    IN  add_node_result(s1,
            _create_node_result("human_review", "human_review", "PAUSED", None,
                                <<>>, data))

(* finalize_node: the success log line formats total_duration with :.2f,   *)
(* which raises when start_time was never set (total_duration is None);    *)
(* the except branch then appends a second, FAILED node result.            *)
finalize_node(s) ==
    LET s1 == [s EXCEPT !.end_time = TRUE]
        s2 == IF s1.status # "FAILED" /\ s1.status # "CANCELLED"
              THEN [s1 EXCEPT !.status = "SUCCESS"] ELSE s1
        s3 == add_node_result(s2,
                  _create_node_result("finalize", "finalize", "SUCCESS", None,
                                      <<>>, <<Len(s2.node_results)>>))
    IN  IF s.start_time
        THEN s3
        ELSE LET error_msg == "finalize failed"
                 s4 == add_node_result(s3,
                           _create_node_result("finalize", "finalize", "FAILED",
                                               error_msg, <<>>, <<>>))
             IN  [add_error(s4, error_msg) EXCEPT !.status = "FAILED"]

---------------------------------------------------------------------------
(* engine.py: OrchestrationEngine                                          *)

(* _execute_simple_mode: the node sequence of each workflow type; CUSTOM   *)
(* takes the default sequence.                                             *)
NodeSequence(workflow_type) ==
    CASE workflow_type = "CODE_COMMIT" ->
            <<"initialize", "single_scan", "collect", "finalize">>
      [] workflow_type = "DEPENDENCY_UPDATE" ->
            <<"initialize", "single_scan", "validate", "finalize">>
      [] workflow_type = "EMERGENCY_VULN" ->
            <<"initialize", "parallel_scan", "collect", "validate", "finalize">>
      [] workflow_type = "RELEASE_REGRESSION" ->
            <<"initialize", "parallel_scan", "collect", "validate",
              "human_review", "finalize">>
      [] OTHER ->
            <<"initialize", "single_scan", "collect", "finalize">>

RunNode(node, s, reg) ==
    CASE node = "initialize"    -> initialize_node(s, reg)
      [] node = "single_scan"   -> single_scan_node(s, reg)
      [] node = "parallel_scan" -> parallel_scan_node(s, reg)
      [] node = "collect"       -> result_collection_node(s)
      [] node = "validate"      -> validation_node(s)
      [] node = "human_review"  -> human_review_node(s)
      [] node = "finalize"      -> finalize_node(s)

(* A call that walks a run: what was called, with which checkpoint id, as  *)
(* the how-manieth call, the state object it walks (execute_workflow reads *)
(* it from the run map once, before the walk), and the run's status and    *)
(* node when the call was made.                                            *)
Call(op, checkpoint_id, s) ==
    [op |-> op, idx |-> 1, cp |-> checkpoint_id, seqno |-> ncalls + 1,
     ref |-> s.workflow_id,
     pre_status |-> s.status, pre_node |-> s.current_node]

Idle == [op |-> "idle", idx |-> 0, cp |-> NoId, seqno |-> 0, ref |-> "none",
         pre_status |-> "PENDING", pre_node |-> None]

Known(r) == r \in DOMAIN workflows

StateOf(r) == heap[workflows[r].state]

CheckpointIds(r) ==
    IF r \in DOMAIN checkpoints
    THEN {checkpoints[r][i].checkpoint_id : i \in 1..Len(checkpoints[r])}
    ELSE {}

(* The first n elements of a list: lst[:n]                                 *)
LastN_oldest(lst, n) ==
    IF n = 0 \/ Len(lst) <= n THEN lst ELSE SubSeq(lst, 1, n)

(* The last n elements of a list: lst[-n:], which is the whole list when n *)
(* is 0.                                                                   *)
LastN(lst, n) ==
    IF n = 0 \/ Len(lst) <= n THEN lst ELSE SubSeq(lst, Len(lst) - n + 1, Len(lst))

(* The checkpoint dict without the name of the node.                       *)
CheckpointDict_unlabelled(checkpoint_id, workflow_id, ref, node_name) ==
    [ checkpoint_id |-> checkpoint_id, workflow_id |-> workflow_id,
      state |-> ref, node_name |-> None ]

(* _save_checkpoint: the checkpoint dict holds the state OBJECT (its ref), *)
(* not a copy; the list is cut to the newest max_checkpoints.              *)
CheckpointDict(checkpoint_id, workflow_id, ref, node_name) ==
    [ checkpoint_id |-> checkpoint_id, workflow_id |-> workflow_id,
      state |-> ref, node_name |-> node_name ]

_save_checkpoint(cps, workflow_id, checkpoint) ==
    LET old == IF workflow_id \in DOMAIN cps THEN cps[workflow_id] ELSE <<>>
        new == Append(old, checkpoint)
    IN  (workflow_id :> LastN(new, config.max_checkpoints)) @@ cps

(* storage.save_workflow: upsert of the run's row; of the row the model    *)
(* keeps the columns status, current_node and node_count.                  *)
save_workflow(rows, s) ==
    (s.workflow_id :> [status |-> s.status, current_node |-> s.current_node,
                       node_count |-> Len(s.node_results)]) @@ rows

(* found is FALSE when the response comes from the facade's except branch  *)
(* (its message is the exception's); call is the call the response answers.*)
WorkflowExecutionResponse(call, workflow_id, status, found) ==
    [op |-> call.op, workflow_id |-> workflow_id, status |-> status,
     found |-> found, call |-> call]

NoResponse == WorkflowExecutionResponse(Idle, "none", "PENDING", FALSE)

(* create_workflow: a fresh id and a fresh PENDING state object.           *)
create_workflow(req) ==
    /\ nruns < Len(RunIdOrder)
    /\ LET workflow_id == RunIdOrder[nruns + 1]
       IN  /\ nruns' = nruns + 1
           /\ heap' = (workflow_id :> NewWorkflowState(workflow_id, req)) @@ heap
           /\ workflows' = (workflow_id :> [state |-> workflow_id]) @@ workflows
    /\ ncalls < MaxCalls
    /\ ncalls' = ncalls + 1
    /\ response' = NoResponse
    /\ UNCHANGED <<checkpoints, pc, fixed, envvars, schedvars, db, savedAt, nsaved>>

(* execute_workflow(run_id), called on an existing run: the walk starts at *)
(* the first node of the sequence, whatever the run's status.              *)
execute_workflow(r) ==
    /\ Known(r)
    /\ pc[r].op = "idle"
    /\ ncalls < MaxCalls
    /\ ncalls' = ncalls + 1
    /\ pc' = [pc EXCEPT ![r] = Call("engine_execute", NoId, StateOf(r))]
    /\ response' = NoResponse
    /\ UNCHANGED <<workflows, checkpoints, heap, fixed, envvars, schedvars, db, savedAt,
                   nruns, nsaved>>

(* templates.py: WORKFLOW_TEMPLATES has an entry for every type but CUSTOM, *)
(* and get_template raises ValueError for a type without one.              *)
WORKFLOW_TEMPLATES ==
    {"CODE_COMMIT", "DEPENDENCY_UPDATE", "EMERGENCY_VULN", "RELEASE_REGRESSION"}

(* The template objects, by what get_template_id() and get_workflow_type() *)
(* of their classes return.                                                *)
CodeCommitWorkflow ==
    [template_id |-> "code_commit_v1", workflow_type |-> "CODE_COMMIT"]

DependencyUpdateWorkflow ==
    [template_id |-> "dependency_update_v1", workflow_type |-> "DEPENDENCY_UPDATE"]

EmergencyVulnWorkflow ==
    [template_id |-> "emergency_vuln_v1", workflow_type |-> "EMERGENCY_VULN"]

ReleaseRegressionWorkflow ==
    [template_id |-> "release_regression_v1", workflow_type |-> "RELEASE_REGRESSION"]

(* The dict WORKFLOW_TEMPLATES with two of its values exchanged.           *)
TemplateItems_exchanged ==
    << <<"CODE_COMMIT", DependencyUpdateWorkflow>>,
       <<"DEPENDENCY_UPDATE", CodeCommitWorkflow>>,
       <<"EMERGENCY_VULN", EmergencyVulnWorkflow>>,
       <<"RELEASE_REGRESSION", ReleaseRegressionWorkflow>> >>

(* The items of the dict WORKFLOW_TEMPLATES, in its order.                 *)
TemplateItems ==
    << <<"CODE_COMMIT", CodeCommitWorkflow>>,
       <<"DEPENDENCY_UPDATE", DependencyUpdateWorkflow>>,
       <<"EMERGENCY_VULN", EmergencyVulnWorkflow>>,
       <<"RELEASE_REGRESSION", ReleaseRegressionWorkflow>> >>

(* get_template: ValueError for a type that is no key of the dict.         *)
get_template(workflow_type) ==
    IF \E i \in 1..Len(TemplateItems) : TemplateItems[i][1] = workflow_type
    THEN [raised |-> None,
          template |-> TemplateItems[CHOOSE i \in 1..Len(TemplateItems) :
                                        TemplateItems[i][1] = workflow_type][2]]
    ELSE [raised |-> "ValueError", template |-> <<>>]

(* list_templates: get_metadata() of every value of the dict.              *)
list_templates ==
    [i \in 1..Len(TemplateItems) |-> TemplateItems[i][2]]

(* No function has been called yet.                                        *)
NoCall == [fn |-> "none", args |-> <<>>, result |-> <<>>]

(* The templates' get_required_tools().                                    *)
get_required_tools(workflow_type) ==
    CASE workflow_type = "CODE_COMMIT"        -> <<"semgrep">>
      [] workflow_type = "DEPENDENCY_UPDATE"  -> <<"syft">>
      [] workflow_type = "EMERGENCY_VULN"     -> <<"semgrep", "syft">>
      [] workflow_type = "RELEASE_REGRESSION" -> <<"semgrep", "syft">>

(* storage.initialize(): raises when the pool cannot be created, returns   *)
(* without a pool when asyncpg is not installed.                           *)
initialize_raises == storage = "down"

(* Every query goes through self.pool.acquire(), which raises when the     *)
(* database is down and when there is no pool.                             *)
query_raises == storage # "ok"

(* WorkflowExecutor.execute(request): get_template, create_workflow (with  *)
(* the template's required tools when the request names none),             *)
(* storage.initialize, then the walk, then storage.save_workflow and the   *)
(* response (at the end of the walk).  When get_template raises, no run is *)
(* created; when storage.initialize raises, the run is created and not     *)
(* walked; either way the response is FAILED under an id made up for it.   *)
executor_execute(req) ==
    /\ nruns < Len(RunIdOrder)
    /\ ncalls < MaxCalls
    /\ ncalls' = ncalls + 1
    /\ IF req.workflow_type \in WORKFLOW_TEMPLATES
       THEN LET workflow_id == RunIdOrder[nruns + 1]
                tool_ids == IF req.tool_ids # <<>> THEN req.tool_ids
                            ELSE get_required_tools(req.workflow_type)
                state == NewWorkflowState(workflow_id,
                                          [req EXCEPT !.tool_ids = tool_ids])
            IN  /\ nruns' = nruns + 1
                /\ heap' = (workflow_id :> state) @@ heap
                /\ workflows' = (workflow_id :> [state |-> workflow_id]) @@ workflows
                /\ IF initialize_raises
                   THEN /\ response' = WorkflowExecutionResponse(
                                           Call("execute", NoId, state),
                                           "uuid4", "FAILED", FALSE)
                        /\ UNCHANGED pc
                   ELSE /\ pc' = [pc EXCEPT ![workflow_id] =
                                     Call("execute", NoId, state)]
                        /\ response' = NoResponse
       ELSE /\ response' = WorkflowExecutionResponse(
                               [Idle EXCEPT !.op = "execute"], "uuid4", "FAILED", FALSE)
            /\ UNCHANGED <<nruns, heap, workflows, pc>>
    /\ UNCHANGED <<checkpoints, fixed, envvars, schedvars, db, savedAt, nsaved>>

(* One iteration of the loop of _execute_simple_mode: the node function,   *)
(* the checkpoint, the tests for PAUSED and FAILED; when the loop ends,    *)
(* execute_workflow stores the state and the facade saves and responds     *)
(* (when save_workflow raises, from its except branch: execute under an id *)
(* made up for the response, resume under the run's).                      *)
(* The node functions catch every exception themselves, so the loop's own  *)
(* except branch is never taken.                                           *)
WalkStep(r) ==
    /\ pc[r].op # "idle"
    /\ LET ref  == pc[r].ref
           seq  == NodeSequence(heap[ref].workflow_type)
           s1   == RunNode(seq[pc[r].idx], heap[ref], registry)
           save == config.enabled /\ config.auto_save
           checkpoint_id == <<r, nsaved[r] + 1>>
           s2   == IF save THEN [s1 EXCEPT !.checkpoint_id = checkpoint_id] ELSE s1
           done == is_paused(s2) \/ s2.status = "FAILED" \/ pc[r].idx = Len(seq)
           newcps == _save_checkpoint(checkpoints, r,
                         CheckpointDict(checkpoint_id, r, ref, s1.current_node))
       IN  /\ heap' = [heap EXCEPT ![ref] = s2]
           /\ IF save
              THEN /\ checkpoints' = newcps
                   /\ nsaved' = [nsaved EXCEPT ![r] = @ + 1]
                   /\ savedAt' = (checkpoint_id :> s2) @@ savedAt
              ELSE UNCHANGED <<checkpoints, nsaved, savedAt>>
           /\ IF done
              THEN /\ pc' = [pc EXCEPT ![r] = Idle]
                   /\ CASE pc[r].op = "engine_execute" ->
                               /\ response' = NoResponse
                               /\ UNCHANGED db
                        [] pc[r].op # "engine_execute" /\ query_raises ->
                               /\ response' = WorkflowExecutionResponse(
                                                  pc[r],
                                                  IF pc[r].op = "execute"
                                                  THEN "uuid4" ELSE r,
                                                  "FAILED", FALSE)
                               /\ UNCHANGED db
                        [] OTHER ->
                               /\ db' = save_workflow(db, s2)
                               /\ response' = WorkflowExecutionResponse(
                                                  pc[r], r, s2.status, TRUE)
              ELSE /\ pc' = [pc EXCEPT ![r].idx = @ + 1]
                   /\ response' = NoResponse
                   /\ UNCHANGED db
    /\ UNCHANGED <<workflows, ncalls, fixed, envvars, schedvars, nruns>>

(* engine.pause_workflow through WorkflowExecutor.pause: any run that is   *)
(* not completed becomes PAUSED; the facade saves the state on success.    *)
pause_state(s) == IF is_completed(s) THEN s ELSE [s EXCEPT !.status = "PAUSED"]

pause(r) ==
    /\ Known(r)
    /\ LET ref == workflows[r].state
           success == ~is_completed(heap[ref])
       IN  /\ heap' = [heap EXCEPT ![ref] = pause_state(@)]
           /\ db' = IF success /\ ~query_raises
                    THEN save_workflow(db, pause_state(heap[ref])) ELSE db
    /\ ncalls < MaxCalls
    /\ ncalls' = ncalls + 1
    /\ response' = NoResponse
    /\ UNCHANGED <<workflows, checkpoints, pc, fixed, envvars, schedvars, savedAt,
                   nruns, nsaved>>

(* engine.cancel_workflow through WorkflowExecutor.cancel.                 *)
cancel_state_untested(s) == [s EXCEPT !.status = "CANCELLED"]

cancel_state(s) == IF is_completed(s) THEN s ELSE [s EXCEPT !.status = "CANCELLED"]

cancel(r) ==
    /\ Known(r)
    /\ LET ref == workflows[r].state
           success == ~is_completed(heap[ref])
       IN  /\ heap' = [heap EXCEPT ![ref] = cancel_state(@)]
           /\ db' = IF success /\ ~query_raises
                    THEN save_workflow(db, cancel_state(heap[ref])) ELSE db
    /\ ncalls < MaxCalls
    /\ ncalls' = ncalls + 1
    /\ response' = NoResponse
    /\ UNCHANGED <<workflows, checkpoints, pc, fixed, envvars, schedvars, savedAt,
                   nruns, nsaved>>

(* resume_workflow: the state object is the checkpoint's when the id is    *)
(* found, the run's otherwise; its status is set to RUNNING without a test *)
(* of the current status, and execute_workflow walks the run's sequence    *)
(* from its first node.                                                    *)
ResumeRef(r, checkpoint_id) ==
    IF checkpoint_id # NoId /\ r \in DOMAIN checkpoints
       /\ \E i \in 1..Len(checkpoints[r]) :
              checkpoints[r][i].checkpoint_id = checkpoint_id
    THEN LET i == CHOOSE i \in 1..Len(checkpoints[r]) :
                      checkpoints[r][i].checkpoint_id = checkpoint_id
         IN  checkpoints[r][i].state
    ELSE workflows[r].state

resume_state_fresh_log(s) == [s EXCEPT !.status = "RUNNING", !.node_results = <<>>]

resume_state(s) == [s EXCEPT !.status = "RUNNING"]

resume(r, checkpoint_id) ==
    /\ Known(r)
    /\ pc[r].op = "idle"
    /\ ncalls < MaxCalls
    /\ ncalls' = ncalls + 1
    /\ heap' = [heap EXCEPT ![ResumeRef(r, checkpoint_id)] = resume_state(@)]
    /\ pc' = [pc EXCEPT ![r] = Call("resume", checkpoint_id, StateOf(r))]
    /\ response' = NoResponse
    /\ UNCHANGED <<workflows, checkpoints, fixed, envvars, schedvars, db, savedAt,
                   nruns, nsaved>>

(* WorkflowExecutor.resume on a run id the engine does not hold: the       *)
(* engine raises ValueError and the facade answers FAILED; the storage is  *)
(* not read.                                                               *)
resume_unknown(r) ==
    /\ \E i \in 1..nruns : RunIdOrder[i] = r
    /\ ~Known(r)
    /\ ncalls < MaxCalls
    /\ ncalls' = ncalls + 1
    /\ response' = WorkflowExecutionResponse(
                        [Idle EXCEPT !.op = "resume"], r, "FAILED", FALSE)
    /\ UNCHANGED <<workflows, checkpoints, heap, pc, fixed, envvars, schedvars, db,
                   savedAt, nruns, nsaved>>

(* A restart of the process: everything the engine holds in memory is      *)
(* lost, the database rows stay.                                           *)
Restart ==
    /\ workflows # <<>>
    /\ ncalls < MaxCalls
    /\ ncalls' = ncalls + 1
    /\ workflows' = <<>>
    /\ checkpoints' = <<>>
    /\ heap' = <<>>
    /\ savedAt' = <<>>
    /\ pc' = [r \in RunIds |-> Idle]
    /\ response' = NoResponse
    /\ UNCHANGED <<fixed, envvars, schedvars, db, nruns, nsaved>>

(* The run's elapsed time passes its workflow timeout while it is walked.  *)
Overdue(r) ==
    /\ pc[r].op # "idle"
    /\ r \notin overdue
    /\ overdue' = overdue \cup {r}
    /\ UNCHANGED <<workflows, checkpoints, heap, pc, ncalls, db, response, savedAt,
                   nruns, nsaved, fixed, db_children, deleted, schedvars>>

(* f without the key k: del f[k]                                           *)
Remove(f, k) == [x \in DOMAIN f \ {k} |-> f[x]]

(* storage.save_checkpoint and storage.save_task_execution: a row of the   *)
(* child table that references the run's row; ValueError when the run has  *)
(* no row.                                                                 *)
insert_child(table, r) ==
    /\ \E i \in 1..nruns : RunIdOrder[i] = r
    /\ ncalls < MaxCalls
    /\ ncalls' = ncalls + 1
    /\ db_children' =
           IF ~query_raises /\ r \in DOMAIN db
           THEN db_children \cup
                    {[table |-> table, workflow_id |-> r,
                      id |-> Cardinality(db_children) + 1]}
           ELSE db_children
    /\ response' = NoResponse
    /\ UNCHANGED <<workflows, checkpoints, heap, pc, db, savedAt, nruns, nsaved,
                   fixed, overdue, deleted, schedvars>>

save_checkpoint(r) == insert_child("workflow_checkpoints", r)

save_task_execution(r) == insert_child("task_executions", r)

(* storage.delete_workflow: the rows of the run in the three tables.       *)
delete_workflow_keep_children(rows, r) == rows

delete_workflow(rows, r) == {row \in rows : row.workflow_id # r}

(* WorkflowExecutor.delete: the run leaves the engine's two maps, then the *)
(* storage deletes its rows (nothing when the run has no row in            *)
(* workflow_runs, or when the storage raises).  A walk of the run that is  *)
(* under way keeps its state object.                                       *)
delete(r) ==
    /\ \E i \in 1..nruns : RunIdOrder[i] = r
    /\ ncalls < MaxCalls
    /\ ncalls' = ncalls + 1
    /\ workflows' = Remove(workflows, r)
    /\ checkpoints' = Remove(checkpoints, r)
    /\ heap' = IF pc[r].op = "idle" THEN Remove(heap, r) ELSE heap
    /\ IF ~query_raises /\ r \in DOMAIN db
       THEN /\ db' = Remove(db, r)
            /\ db_children' = delete_workflow(db_children, r)
       ELSE UNCHANGED <<db, db_children>>
    /\ deleted' = (r :> [in_memory |-> Known(r),
                         checkpoints |-> r \in DOMAIN checkpoints,
                         row |-> r \in DOMAIN db,
                         children |-> {row.table : row \in
                                         {c \in db_children : c.workflow_id = r}}])
                  @@ deleted
    /\ response' = NoResponse
    /\ UNCHANGED <<pc, savedAt, nruns, nsaved, fixed, overdue, schedvars>>

(* WorkflowExecutor.get_status: the engine's memory first, then the        *)
(* storage; ValueError("workflow does not exist") when neither has the run.*)
get_status(wfs, rows, r) ==
    IF r \in DOMAIN wfs THEN "memory"
    ELSE IF query_raises THEN "storage error"
    ELSE IF r \in DOMAIN rows THEN "row"
    ELSE "not found"

(* get_status, for a run the engine holds: progress is 100 for a completed *)
(* run, else a fifth of 100 per node result, at most 100.                  *)
status_progress(s) ==
    LET total_nodes == Len(s.node_results)
        progress == IF is_completed(s) THEN 100
                    ELSE IF total_nodes > 0 THEN (total_nodes * 100) \div 5
                    ELSE 0
    IN  IF progress < 100 THEN progress ELSE 100

---------------------------------------------------------------------------
(* services/tool_registry.py, adapters/base.py, services/tool_service.py   *)

(* A Python dict, as the sequence of its <<key, value>> items in insertion *)
(* order.                                                                  *)
dict_keys(d) == [i \in 1..Len(d) |-> d[i][1]]

dict_has(d, k) == \E i \in 1..Len(d) : d[i][1] = k

(* d.get(k): the value under k, None when there is none.                   *)
dict_get(d, k) ==
    IF dict_has(d, k)
    THEN d[CHOOSE i \in 1..Len(d) : d[i][1] = k][2]
    ELSE None

(* d[k] = v: replaces the value of an existing key where it is, appends a  *)
(* new key.                                                                *)
dict_set(d, k, v) ==
    IF dict_has(d, k)
    THEN [i \in 1..Len(d) |-> IF d[i][1] = k THEN <<k, v>> ELSE d[i]]
    ELSE Append(d, <<k, v>>)

(* del d[k]                                                                *)
dict_del(d, k) ==
    LET other(item) == item[1] # k
    IN  SelectSeq(d, other)

(* The adapter objects there are to register: the SemgrepAdapter, the      *)
(* SyftAdapter and a second adapter class that declares the tool id        *)
(* "semgrep" too.                                                          *)
Adapters ==
    { [adapter |-> "SemgrepAdapter", tool_id |-> "semgrep", tool_name |-> "Semgrep",
       tool_type |-> "SAST"],
      [adapter |-> "CustomAdapter",  tool_id |-> "semgrep", tool_name |-> "Custom",
       tool_type |-> "SAST"],
      [adapter |-> "SyftAdapter",    tool_id |-> "syft",    tool_name |-> "Syft",
       tool_type |-> "SCA"] }

(* The tool ids a caller may ask for; "nikto" has no adapter.              *)
ToolIds == {"semgrep", "syft", "nikto"}

(* adapter.get_capability(): the ToolCapability the adapter declares.      *)
get_capability(adapter) ==
    [tool_id |-> adapter.tool_id, tool_name |-> adapter.tool_name,
     tool_type |-> adapter.tool_type]

EmptyRegistry == [tools |-> <<>>, capabilities |-> <<>>]

(* ToolRegistry.register with the existing entry kept, were there one.     *)
registry_register_keep(reg, adapter) ==
    LET capability == get_capability(adapter)
        tool_id == capability.tool_id
    IN  IF dict_has(reg.tools, tool_id) THEN reg
        ELSE [tools |-> dict_set(reg.tools, tool_id, adapter),
              capabilities |-> dict_set(reg.capabilities, tool_id, capability)]

(* ToolRegistry.register: an id already there is overwritten (a warning is *)
(* logged).                                                                *)
registry_register(reg, adapter) ==
    LET capability == get_capability(adapter)
        tool_id == capability.tool_id
    IN  [tools |-> dict_set(reg.tools, tool_id, adapter),
         capabilities |-> dict_set(reg.capabilities, tool_id, capability)]

(* ToolRegistry.unregister: both entries go; an unknown id changes nothing *)
(* (and returns False).                                                    *)
registry_unregister(reg, tool_id) ==
    IF dict_has(reg.tools, tool_id)
    THEN [tools |-> dict_del(reg.tools, tool_id),
          capabilities |-> dict_del(reg.capabilities, tool_id)]
    ELSE reg

(* ToolRegistry.get_adapter                                                *)
get_adapter(reg, tool_id) == dict_get(reg.tools, tool_id)

(* ToolRegistry.get_tool_ids                                               *)
registry_get_tool_ids(reg) == dict_keys(reg.tools)

(* What a stage of an adapter may do when run() calls it: return (True or  *)
(* False for validate_input), raise one of the typed errors, or raise some *)
(* other exception.  What a stage would do matters only when the stages    *)
(* before it returned, so a stage after a failing one is listed as "ok".   *)
StageOutcomes ==
    { st \in [ validate_input : {"True", "False", "InputValidationError", "Exception"},
               execute        : {"ok", "ExecutionError", "Exception"},
               parse_output   : {"ok", "ParseError", "Exception"} ] :
        /\ st.validate_input # "True" => st.execute = "ok"
        /\ st.execute # "ok" => st.parse_output = "ok" }

(* class AdapterError(Exception) and its three subclasses.                 *)
AdapterErrors ==
    {"AdapterError", "InputValidationError", "ExecutionError", "ParseError"}

(* The except clauses of run() with the last one re-raising as well.       *)
leaves_run_unconverted(e) == e

(* The except clauses of run(): the three stage errors are re-raised, any  *)
(* other exception leaves as an AdapterError.                              *)
leaves_run(e) ==
    IF e \in {"InputValidationError", "ExecutionError", "ParseError"}
    THEN e
    ELSE "AdapterError"

(* BaseAdapter.run: validate_input, execute, parse_output; calls is the    *)
(* stages called, in order, with what each did.                            *)
BaseAdapter_run(adapter, scan_id, st) ==
    LET validated == <<[stage |-> "validate_input", outcome |-> st.validate_input]>>
        executed  == Append(validated, [stage |-> "execute", outcome |-> st.execute])
        parsed    == Append(executed, [stage |-> "parse_output", outcome |-> st.parse_output])
        raises(calls, e) ==
            [adapter |-> adapter.adapter, calls |-> calls,
             raised |-> leaves_run(e), vulnerabilities |-> <<>>]
    IN  IF st.validate_input = "False" THEN raises(validated, "InputValidationError")
        ELSE IF st.validate_input # "True" THEN raises(validated, st.validate_input)
        ELSE IF st.execute # "ok" THEN raises(executed, st.execute)
        ELSE IF st.parse_output # "ok" THEN raises(parsed, st.parse_output)
        ELSE [adapter |-> adapter.adapter, calls |-> parsed, raised |-> None,
              vulnerabilities |->
                  <<[vulnerability_id |->
                         generate_vulnerability_id(scan_id, adapter.tool_id, 0),
                     source_tool |-> adapter.tool_id]>>]

NoScan ==
    [tool_id |-> None, returned |-> FALSE, raised |-> None, runs |-> <<>>,
     response |-> [success |-> FALSE, vulnerabilities |-> <<>>, error |-> None,
                   metadata |-> {}]]

(* ToolService.scan_with_tool with the adapter's error passed on to the    *)
(* caller.                                                                 *)
ToolService_scan_with_tool_uncaught(reg, tool_id, scan_id, st) ==
    LET failure(runs, error) ==
            [tool_id |-> tool_id, returned |-> TRUE, raised |-> None, runs |-> runs,
             response |-> [success |-> FALSE, vulnerabilities |-> <<>>,
                           error |-> error, metadata |-> {}]]
    IN  IF ~dict_has(reg.tools, tool_id) THEN failure(<<>>, "tool not found")
        ELSE LET adapter == get_adapter(reg, tool_id)
                 r == BaseAdapter_run(adapter, scan_id, st)
             IN  IF r.raised = None
                 THEN [tool_id |-> tool_id, returned |-> TRUE, raised |-> None,
                       runs |-> <<r>>,
                       response |-> [success |-> TRUE,
                                     vulnerabilities |-> r.vulnerabilities,
                                     error |-> None,
                                     metadata |-> {<<"tool_name", adapter.tool_name>>,
                                                   <<"tool_type", adapter.tool_type>>}]]
                 ELSE [NoScan EXCEPT !.tool_id = tool_id, !.raised = r.raised,
                                     !.runs = <<r>>]

(* ToolService.scan_with_tool: get_adapter() is None for an unknown id;    *)
(* otherwise adapter.run() is called in a try block whose handlers catch   *)
(* AdapterError and then Exception.                                        *)
ToolService_scan_with_tool(reg, tool_id, scan_id, st) ==
    LET failure(runs, error) ==
            [tool_id |-> tool_id, returned |-> TRUE, raised |-> None, runs |-> runs,
             response |-> [success |-> FALSE, vulnerabilities |-> <<>>,
                           error |-> error, metadata |-> {}]]
    IN  IF ~dict_has(reg.tools, tool_id) THEN failure(<<>>, "tool not found")
        ELSE LET adapter == get_adapter(reg, tool_id)
                 r == BaseAdapter_run(adapter, scan_id, st)
             IN  IF r.raised = None
                 THEN [tool_id |-> tool_id, returned |-> TRUE, raised |-> None,
                       runs |-> <<r>>,
                       response |-> [success |-> TRUE,
                                     vulnerabilities |-> r.vulnerabilities,
                                     error |-> None,
                                     metadata |-> {<<"tool_name", adapter.tool_name>>,
                                                   <<"tool_type", adapter.tool_type>>}]]
                 ELSE IF r.raised \in AdapterErrors
                 THEN failure(<<r>>, "adapter error")
                 ELSE IF r.raised \in AdapterErrors \cup {"Exception"}
                 THEN failure(<<r>>, "unexpected error")
                 ELSE [NoScan EXCEPT !.tool_id = tool_id, !.raised = r.raised,
                                     !.runs = <<r>>]

IdleExec ==
    [state |-> "idle", tool_ids |-> <<>>, executing |-> {}, responses |-> <<>>]

(* The state of the tool service when it is constructed.                   *)
ServiceInit ==
    /\ tool_registry = EmptyRegistry
    /\ last_registered = <<>>
    /\ scan_call = NoScan
    /\ tool_exec = IdleExec

---------------------------------------------------------------------------

Init ==
    /\ workflows = <<>>
    /\ checkpoints = <<>>
    /\ heap = <<>>
    /\ pc = [r \in RunIds |-> Idle]
    /\ ncalls = 0
    /\ registry = DefaultRegistry
    /\ config \in [enabled : BOOLEAN, auto_save : {TRUE},
                   max_checkpoints : {MaxCheckpoints},
                   max_parallel_tools : {MaxParallel}]
    /\ db = <<>>
    /\ response = NoResponse
    /\ savedAt = <<>>
    /\ nruns = 0
    /\ nsaved = [r \in RunIds |-> 0]
    /\ storage = "ok"
    /\ overdue = {}
    /\ db_children = {}
    /\ deleted = <<>>
    /\ sched_tasks = <<>>
    /\ task_run = <<>>
    /\ semaphore = <<>>
    /\ threads = <<>>
    /\ schedule_call = <<>>
    /\ other_task = "done"
    /\ ServiceInit
    /\ fn_call = NoCall

Next ==
    \/ \E req \in Requests : create_workflow(req)
    \/ \E req \in Requests : executor_execute(req)
    \/ \E r \in RunIds : execute_workflow(r)
    \/ \E r \in RunIds : WalkStep(r)
    \/ \E r \in RunIds : pause(r)
    \/ \E r \in RunIds : cancel(r)
    \/ \E r \in RunIds : \E cid \in {NoId} \cup CheckpointIds(r) : resume(r, cid)
    \/ \E r \in RunIds : resume_unknown(r)
    \/ Restart

Spec == Init /\ [][Next]_vars

nonservice == <<enginevars, schedvars, registry, config, storage, fn_call>>

(* The id of the run a node scans for.                                     *)
ScanId == "scan-1"

(* ToolRegistry.register(adapter)                                          *)
register(adapter) ==
    /\ tool_registry' = registry_register(tool_registry, adapter)
    /\ last_registered' =
           [id \in DOMAIN last_registered \cup {adapter.tool_id} |->
               IF id = adapter.tool_id THEN adapter ELSE last_registered[id]]
    /\ UNCHANGED <<scan_call, tool_exec, nonservice>>

(* ToolRegistry.unregister(tool_id)                                        *)
unregister(tool_id) ==
    /\ tool_registry' = registry_unregister(tool_registry, tool_id)
    /\ last_registered' =
           [id \in DOMAIN last_registered \ {tool_id} |-> last_registered[id]]
    /\ UNCHANGED <<scan_call, tool_exec, nonservice>>

(* ToolRegistry.clear()                                                    *)
clear ==
    /\ tool_registry' = EmptyRegistry
    /\ last_registered' = <<>>
    /\ UNCHANGED <<scan_call, tool_exec, nonservice>>

(* A caller's ToolService.scan_with_tool(tool_id, scan_request).           *)
Scan(tool_id, st) ==
    /\ scan_call' = ToolService_scan_with_tool(tool_registry, tool_id, ScanId, st)
    /\ UNCHANGED <<tool_registry, last_registered, tool_exec, nonservice>>

(* The tool id lists of the runs whose parallel-scan node is executed.     *)
ToolIdLists ==
    {<<>>, <<"syft">>, <<"semgrep", "syft">>, <<"syft", "nikto">>,
     <<"semgrep", "semgrep">>}

(* parallel_scan_node calls scan_with_multiple_tools, which takes all the  *)
(* registered ids when the request names none.                             *)
ParallelScanBegin(tool_ids) ==
    /\ tool_exec.state # "scanning"
    /\ tool_exec' = [state |-> "scanning",
                     tool_ids |-> IF tool_ids = <<>>
                                  THEN registry_get_tool_ids(tool_registry)
                                  ELSE tool_ids,
                     executing |-> {},
                     responses |-> <<>>]
    /\ UNCHANGED <<tool_registry, last_registered, scan_call, nonservice>>

(* The for loop of scan_with_multiple_tools comes to its next tool and     *)
(* calls scan_with_tool for it; the call before has returned.              *)
ToolStart ==
    /\ tool_exec.state = "scanning"
    /\ tool_exec.executing = {}
    /\ Len(tool_exec.responses) < Len(tool_exec.tool_ids)
    /\ tool_exec' = [tool_exec EXCEPT !.executing = {Len(tool_exec.responses) + 1}]
    /\ UNCHANGED <<tool_registry, last_registered, scan_call, nonservice>>

(* That call returns its response, which the loop appends.                 *)
ToolEnd(st) ==
    /\ tool_exec.state = "scanning"
    /\ tool_exec.executing # {}
    /\ LET i == CHOOSE i \in tool_exec.executing : TRUE
           call == ToolService_scan_with_tool(tool_registry, tool_exec.tool_ids[i],
                                              ScanId, st)
       IN  /\ scan_call' = call
           /\ tool_exec' = [tool_exec EXCEPT
                               !.executing = {},
                               !.responses = Append(@, call.response)]
    /\ UNCHANGED <<tool_registry, last_registered, nonservice>>

(* scan_with_multiple_tools returns the responses to the node.             *)
ParallelScanReturn ==
    /\ tool_exec.state = "scanning"
    /\ tool_exec.executing = {}
    /\ Len(tool_exec.responses) = Len(tool_exec.tool_ids)
    /\ tool_exec' = [tool_exec EXCEPT !.state = "returned"]
    /\ UNCHANGED <<tool_registry, last_registered, scan_call, nonservice>>

ServiceNext ==
    \/ \E adapter \in Adapters : register(adapter)
    \/ \E tool_id \in ToolIds : unregister(tool_id)
    \/ clear
    \/ \E tool_id \in ToolIds, st \in StageOutcomes : Scan(tool_id, st)
    \/ \E tool_ids \in ToolIdLists : ParallelScanBegin(tool_ids)
    \/ ToolStart
    \/ \E st \in StageOutcomes : ToolEnd(st)
    \/ ParallelScanReturn

(* The registry, the tool service and a parallel-scan node's tool loop.    *)
ServiceSpec == Init /\ [][ServiceNext]_vars

(* The same, where a started tool loop goes on: every scan_with_tool call  *)
(* returns and the loop takes its next step.                               *)
ServiceFairSpec ==
    /\ Init
    /\ [][ServiceNext]_vars
    /\ WF_vars(ToolStart)
    /\ WF_vars(\E st \in StageOutcomes : ToolEnd(st))
    /\ WF_vars(ParallelScanReturn)

---------------------------------------------------------------------------
(* Calls of the functions that touch no object of the engine: the inputs   *)
(* are drawn from bounded sets.                                            *)

nonfn == <<enginevars, schedvars, registry, config, storage, servicevars>>

(* templates.get_template(workflow_type)                                   *)
CallGetTemplate(workflow_type) ==
    /\ fn_call' = [fn |-> "get_template", args |-> <<workflow_type>>,
                   result |-> get_template(workflow_type)]
    /\ UNCHANGED nonfn

(* templates.list_templates()                                              *)
CallListTemplates ==
    /\ fn_call' = [fn |-> "list_templates", args |-> <<>>, result |-> list_templates]
    /\ UNCHANGED nonfn

MaxFindings == 3     \* longest finding list a node is called with

(* The dumped findings a state may hold.  confidence is confidence.score   *)
(* as the adapters set it from the tool's severity string (an integer of   *)
(* 0..100); confidence_score is severity.confidence_score, a key that the  *)
(* Severity the adapters build does not have (NoScore) and that a finding  *)
(* of another origin may carry, in tenths.                                 *)
DumpedFindings ==
    { [source_tool |-> "semgrep", confidence |-> 90, confidence_score |-> NoScore],
      [source_tool |-> "semgrep", confidence |-> 70, confidence_score |-> NoScore],
      [source_tool |-> "other",   confidence |-> 0,  confidence_score |-> 8],
      [source_tool |-> "other",   confidence |-> 0,  confidence_score |-> NoScore] }

FindingLists ==
    UNION { [1..n -> DumpedFindings] : n \in 0..MaxFindings }

(* validation_node(state), for a state with the given findings.            *)
CallValidationNode(vulnerabilities) ==
    /\ LET s == [NewWorkflowState("run-a", [workflow_type |-> "DEPENDENCY_UPDATE",
                                            path |-> "/src",
                                            tool_ids |-> <<"semgrep">>])
                    EXCEPT !.vulnerabilities = vulnerabilities]
           after == validation_node(s)
       IN  fn_call' = [fn |-> "validation_node", args |-> <<vulnerabilities>>,
                       result |-> [vulnerabilities |-> after.vulnerabilities,
                                   node_results |-> after.node_results]]
    /\ UNCHANGED nonfn

FunctionNext ==
    \/ \E workflow_type \in WorkflowType : CallGetTemplate(workflow_type)
    \/ CallListTemplates
    \/ \E vulnerabilities \in FindingLists : CallValidationNode(vulnerabilities)

FunctionSpec == Init /\ [][FunctionNext]_vars

---------------------------------------------------------------------------
(* The facade in its environment: the registry may be empty, the storage   *)
(* may be down or not installed, time passes, runs are deleted and the     *)
(* storage's child tables are written.                                     *)

EnvRequests ==
    { [workflow_type |-> "CODE_COMMIT",    path |-> "/src", tool_ids |-> <<"semgrep">>],
      [workflow_type |-> "CODE_COMMIT",    path |-> "/src", tool_ids |-> <<>>],
      [workflow_type |-> "EMERGENCY_VULN", path |-> "/src", tool_ids |-> <<>>] }

EnvInit ==
    /\ workflows = <<>>
    /\ checkpoints = <<>>
    /\ heap = <<>>
    /\ pc = [r \in RunIds |-> Idle]
    /\ ncalls = 0
    /\ registry \in {DefaultRegistry, <<>>}
    /\ config \in [enabled : BOOLEAN, auto_save : {TRUE},
                   max_checkpoints : {MaxCheckpoints},
                   max_parallel_tools : {MaxParallel}]
    /\ db = <<>>
    /\ response = NoResponse
    /\ savedAt = <<>>
    /\ nruns = 0
    /\ nsaved = [r \in RunIds |-> 0]
    /\ storage \in {"ok", "down", "absent"}
    /\ overdue = {}
    /\ db_children = {}
    /\ deleted = <<>>
    /\ sched_tasks = <<>>
    /\ task_run = <<>>
    /\ semaphore = <<>>
    /\ threads = <<>>
    /\ schedule_call = <<>>
    /\ other_task = "done"
    /\ ServiceInit
    /\ fn_call = NoCall

EnvNext ==
    \/ \E req \in EnvRequests : create_workflow(req)
    \/ \E req \in EnvRequests : executor_execute(req)
    \/ \E r \in RunIds : execute_workflow(r)
    \/ \E r \in RunIds : WalkStep(r)
    \/ \E r \in RunIds : Overdue(r)
    \/ \E r \in RunIds : save_checkpoint(r)
    \/ \E r \in RunIds : save_task_execution(r)
    \/ \E r \in RunIds : delete(r)

EnvSpec == EnvInit /\ [][EnvNext]_vars

---------------------------------------------------------------------------
(* scheduler.py: two TaskSchedulers, one per run, on one event loop.       *)
(* schedule_parallel gathers one _execute_single_task coroutine per task;  *)
(* each is an asyncio task of the loop, as is the caller that awaits the   *)
(* gather.  asyncio.CancelledError is a BaseException (Python 3.8 on), so  *)
(* neither `except Exception` nor isinstance(result, Exception) sees it.   *)

SchedIds == {"sched-a", "sched-b"}

TaskIdsOf == [s \in SchedIds |-> IF s = "sched-a" THEN {"t1", "t2"} ELSE {"t3"}]

(* TaskPriority and its values.                                            *)
TaskPriority == [LOW |-> 1, NORMAL |-> 2, HIGH |-> 3, CRITICAL |-> 4]

(* Task: func is a coroutine function or a plain one (run in the loop's    *)
(* thread pool), timeout is set or None.                                   *)
Task(task_id, sched, kind, timeout, max_retries, priority) ==
    [task_id |-> task_id, sched |-> sched, kind |-> kind, timeout |-> timeout,
     max_retries |-> max_retries, priority |-> priority]

TaskResult(status, retry_count) == [status |-> status, retry_count |-> retry_count]

NoResult == TaskResult(None, 0)

(* The coroutine of a task: at is where it stands (waiting for the         *)
(* semaphore, running its function inside it, sleeping before a retry,     *)
(* done with a result, cancelled); attempts is history, the number of      *)
(* times the function was started.                                         *)
NewTaskRun == [at |-> "waiting", retry_count |-> 0, attempts |-> 0,
               result |-> NoResult]

Unfinished(t) == task_run[t].at \in {"waiting", "running", "sleeping"}

(* schedule_parallel(tasks): the coroutines are created and gathered.      *)
(* The tasks have the default priority, so the sort leaves their order.    *)
schedule_parallel(s, kind, timeout, max_retries) ==
    /\ schedule_call[s].state = "none"
    /\ sched_tasks' = [t \in TaskIdsOf[s] |->
                          Task(t, s, kind, timeout, max_retries, "NORMAL")]
                          @@ sched_tasks
    /\ task_run' = [t \in TaskIdsOf[s] |-> NewTaskRun] @@ task_run
    /\ threads' = [t \in TaskIdsOf[s] |-> 0] @@ threads
    /\ schedule_call' = [schedule_call EXCEPT ![s].state = "gathering"]
    /\ UNCHANGED <<semaphore, other_task, enginevars, fixed>>

(* async with self.semaphore, and the function is started.                 *)
Acquire(t) ==
    /\ t \in DOMAIN task_run
    /\ task_run[t].at = "waiting"
    /\ semaphore[sched_tasks[t].sched] > 0
    /\ semaphore' = [semaphore EXCEPT ![sched_tasks[t].sched] = @ - 1]
    /\ task_run' = [task_run EXCEPT ![t].at = "running", ![t].attempts = @ + 1]
    /\ UNCHANGED <<sched_tasks, threads, schedule_call, other_task, enginevars, fixed>>

(* The function returns: the SUCCESS result, the semaphore is released.    *)
Succeed(t) ==
    /\ t \in DOMAIN task_run
    /\ task_run[t].at = "running"
    /\ semaphore' = [semaphore EXCEPT ![sched_tasks[t].sched] = @ + 1]
    /\ task_run' = [task_run EXCEPT
                       ![t].at = "done",
                       ![t].result = TaskResult("SUCCESS", task_run[t].retry_count)]
    /\ UNCHANGED <<sched_tasks, threads, schedule_call, other_task, enginevars, fixed>>

(* while retry_count <= task.max_retries / if retry_count <= max_retries   *)
may_attempt_once_more(retry_count, max_retries) == retry_count <= max_retries + 1

may_attempt(retry_count, max_retries) == retry_count <= max_retries

(* What follows a failed or timed-out attempt: retry_count += 1, then the  *)
(* sleep before the next attempt or the FAILED result.                     *)
after_failure(run, task) ==
    LET retry_count == run.retry_count + 1
    IN  IF may_attempt(retry_count, task.max_retries)
        THEN [run EXCEPT !.at = "sleeping", !.retry_count = retry_count]
        ELSE [run EXCEPT !.at = "done", !.retry_count = retry_count,
                         !.result = TaskResult("FAILED", retry_count - 1)]

(* An Exception that leaves the task inside `async with`: the slot is kept *)
(* through the sleep.                                                      *)
Fail_holding(t) ==
    /\ t \in DOMAIN task_run
    /\ task_run[t].at = "running"
    /\ task_run' = [task_run EXCEPT ![t] = after_failure(@, sched_tasks[t])]
    /\ UNCHANGED <<sched_tasks, semaphore, threads, schedule_call, other_task,
                   enginevars, fixed>>

(* The function raises an Exception.                                       *)
Fail(t) ==
    /\ t \in DOMAIN task_run
    /\ task_run[t].at = "running"
    /\ semaphore' = [semaphore EXCEPT ![sched_tasks[t].sched] = @ + 1]
    /\ task_run' = [task_run EXCEPT ![t] = after_failure(@, sched_tasks[t])]
    /\ UNCHANGED <<sched_tasks, threads, schedule_call, other_task, enginevars, fixed>>

(* asyncio.wait_for runs out: a coroutine function is cancelled; a plain   *)
(* function goes on in its thread, only the future awaiting it is          *)
(* cancelled.                                                              *)
Timeout(t) ==
    /\ t \in DOMAIN task_run
    /\ task_run[t].at = "running"
    /\ sched_tasks[t].timeout
    /\ semaphore' = [semaphore EXCEPT ![sched_tasks[t].sched] = @ + 1]
    /\ task_run' = [task_run EXCEPT ![t] = after_failure(@, sched_tasks[t])]
    /\ threads' = [threads EXCEPT ![t] = IF sched_tasks[t].kind = "sync"
                                         THEN @ + 1 ELSE @]
    /\ UNCHANGED <<sched_tasks, schedule_call, other_task, enginevars, fixed>>

(* asyncio.sleep(delay) is over.                                           *)
Wake(t) ==
    /\ t \in DOMAIN task_run
    /\ task_run[t].at = "sleeping"
    /\ task_run' = [task_run EXCEPT ![t].at = "waiting"]
    /\ UNCHANGED <<sched_tasks, semaphore, threads, schedule_call, other_task,
                   enginevars, fixed>>

(* An abandoned execution of a plain function ends in its thread.          *)
ThreadEnd(t) ==
    /\ t \in DOMAIN threads
    /\ threads[t] > 0
    /\ threads' = [threads EXCEPT ![t] = @ - 1]
    /\ UNCHANGED <<sched_tasks, task_run, semaphore, schedule_call, other_task,
                   enginevars, fixed>>

(* asyncio.gather over the coroutines completes when every one of them    *)
(* has.                                                                    *)
gather_done_first(s) == \E t \in TaskIdsOf[s] : task_run[t].at = "done"

gather_done(s) == \A t \in TaskIdsOf[s] : task_run[t].at = "done"

(* gather is done: _execute_parallel_all returns the results.              *)
Return(s) ==
    /\ schedule_call[s].state = "gathering"
    /\ gather_done(s)
    /\ schedule_call' = [schedule_call EXCEPT
                            ![s] = [state |-> "returned",
                                    results |-> [t \in TaskIdsOf[s] |->
                                                    task_run[t].result]]]
    /\ UNCHANGED <<sched_tasks, task_run, semaphore, threads, other_task,
                   enginevars, fixed>>

(* An asyncio task of the loop that belongs to no scheduler ends.          *)
OtherDone ==
    /\ other_task = "running"
    /\ other_task' = "done"
    /\ UNCHANGED <<sched_tasks, task_run, semaphore, threads, schedule_call,
                   enginevars, fixed>>

(* cancel_all(): task.cancel() on every task of the event loop that is not *)
(* done: the coroutines of every scheduler's tasks (leaving the semaphore  *)
(* where they held it; a plain function goes on in its thread), the        *)
(* callers awaiting a gather, which get CancelledError instead of results, *)
(* and every other task.                                                   *)
cancel_all(s) ==
    /\ schedule_call[s].state = "gathering"
    /\ task_run' = [t \in DOMAIN task_run |->
                       IF Unfinished(t) THEN [task_run[t] EXCEPT !.at = "cancelled"]
                       ELSE task_run[t]]
    /\ semaphore' = [x \in SchedIds |->
                        semaphore[x] + Cardinality({t \in DOMAIN task_run :
                                           /\ sched_tasks[t].sched = x
                                           /\ task_run[t].at = "running"})]
    /\ threads' = [t \in DOMAIN threads |->
                      IF task_run[t].at = "running" /\ sched_tasks[t].kind = "sync"
                      THEN threads[t] + 1 ELSE threads[t]]
    /\ schedule_call' = [x \in SchedIds |->
                            IF schedule_call[x].state = "gathering"
                            THEN [schedule_call[x] EXCEPT !.state = "cancelled"]
                            ELSE schedule_call[x]]
    /\ other_task' = IF other_task = "running" THEN "cancelled" ELSE other_task
    /\ UNCHANGED <<sched_tasks, enginevars, fixed>>

SchedInit ==
    /\ workflows = <<>>
    /\ checkpoints = <<>>
    /\ heap = <<>>
    /\ pc = [r \in RunIds |-> Idle]
    /\ ncalls = 0
    /\ registry = DefaultRegistry
    /\ config \in [enabled : {TRUE}, auto_save : {TRUE},
                   max_checkpoints : {MaxCheckpoints},
                   max_parallel_tools : 1..MaxParallel]
    /\ db = <<>>
    /\ response = NoResponse
    /\ savedAt = <<>>
    /\ nruns = 0
    /\ nsaved = [r \in RunIds |-> 0]
    /\ storage = "ok"
    /\ overdue = {}
    /\ db_children = {}
    /\ deleted = <<>>
    /\ sched_tasks = <<>>
    /\ task_run = <<>>
    /\ semaphore = [s \in SchedIds |-> config.max_parallel_tools]
    /\ threads = <<>>
    /\ schedule_call = [s \in SchedIds |-> [state |-> "none", results |-> <<>>]]
    /\ other_task = "running"
    /\ ServiceInit
    /\ fn_call = NoCall

TaskIds == UNION {TaskIdsOf[s] : s \in SchedIds}

SchedNext ==
    \/ \E s \in SchedIds, kind \in {"coroutine", "sync"}, timeout \in BOOLEAN,
          max_retries \in 0..MaxRetries :
            schedule_parallel(s, kind, timeout, max_retries)
    \/ \E t \in TaskIds : Acquire(t)
    \/ \E t \in TaskIds : Succeed(t)
    \/ \E t \in TaskIds : Fail(t)
    \/ \E t \in TaskIds : Timeout(t)
    \/ \E t \in TaskIds : Wake(t)
    \/ \E t \in TaskIds : ThreadEnd(t)
    \/ \E s \in SchedIds : Return(s)
    \/ \E s \in SchedIds : cancel_all(s)
    \/ OtherDone

SchedSpec == SchedInit /\ [][SchedNext]_vars

---------------------------------------------------------------------------
(* scheduler.py: the other two ways of scheduling, on one scheduler.       *)

(* The task lists a call is given: the scheduler's tasks in either order,  *)
(* with priorities.                                                        *)
TaskLists(s) ==
    {<<Task("t1", s, "coroutine", FALSE, max_retries, p1),
       Task("t2", s, "coroutine", FALSE, max_retries, p2)>> :
          max_retries \in 0..MaxRetries, p1 \in {"LOW", "HIGH"}, p2 \in {"LOW", "HIGH"}}
    \cup
    {<<Task("t2", s, "coroutine", FALSE, max_retries, p2),
       Task("t1", s, "coroutine", FALSE, max_retries, p1)>> :
          max_retries \in 0..MaxRetries, p1 \in {"LOW", "HIGH"}, p2 \in {"LOW", "HIGH"}}

(* schedule_sequential(tasks, stop_on_failure): `for task in tasks`, the   *)
(* first task's coroutine is awaited.  started is history: the task ids in *)
(* the order their coroutines were started.                                *)
schedule_sequential(s, tasks, stop_on_failure) ==
    /\ schedule_call[s].state = "none"
    /\ sched_tasks' = [t \in TaskIdsOf[s] |->
                          LET i == CHOOSE i \in 1..Len(tasks) : tasks[i].task_id = t
                          IN  tasks[i]] @@ sched_tasks
    /\ task_run' = (tasks[1].task_id :> NewTaskRun) @@ task_run
    /\ threads' = [t \in TaskIdsOf[s] |-> 0] @@ threads
    /\ schedule_call' = [schedule_call EXCEPT
                            ![s] = [state |-> "sequential", mode |-> "sequential",
                                    tasks |-> [i \in 1..Len(tasks) |-> tasks[i].task_id],
                                    stop_on_failure |-> stop_on_failure,
                                    started |-> <<tasks[1].task_id>>,
                                    results |-> <<>>]]
    /\ UNCHANGED <<semaphore, other_task, enginevars, fixed>>

(* The result of a task, as an entry of a result list.                     *)
ResultOf(t) == [task_id |-> t, status |-> task_run[t].result.status,
                retry_count |-> task_run[t].result.retry_count]

(* The loop of schedule_sequential without its stop: every task is awaited *)
(* whatever the result of the one before.                                  *)
SequentialStep_nostop(s) ==
    /\ schedule_call[s].state = "sequential"
    /\ LET call == schedule_call[s]
           t == call.tasks[Len(call.results) + 1]
           results == Append(call.results, ResultOf(t))
           remaining == SubSeq(call.tasks, Len(results) + 1, Len(call.tasks))
       IN  /\ task_run[t].at = "done"
           /\ IF remaining # <<>>
              THEN /\ schedule_call' = [schedule_call EXCEPT
                          ![s].results = results,
                          ![s].started = Append(@, remaining[1])]
                   /\ task_run' = (remaining[1] :> NewTaskRun) @@ task_run
              ELSE /\ schedule_call' = [schedule_call EXCEPT
                          ![s].state = "returned", ![s].results = results]
                   /\ UNCHANGED task_run
    /\ UNCHANGED <<sched_tasks, semaphore, threads, other_task, enginevars, fixed>>

(* One turn of the loop of schedule_sequential: the awaited task is done,  *)
(* its result is appended; on a failure with stop_on_failure the remaining *)
(* tasks get SKIPPED results and the loop ends; otherwise the next task's  *)
(* coroutine is started, or the list is at its end and the call returns.   *)
SequentialStep(s) ==
    /\ schedule_call[s].state = "sequential"
    /\ LET call == schedule_call[s]
           t == call.tasks[Len(call.results) + 1]
           results == Append(call.results, ResultOf(t))
           remaining == SubSeq(call.tasks, Len(results) + 1, Len(call.tasks))
       IN  /\ task_run[t].at = "done"
           /\ IF call.stop_on_failure /\ task_run[t].result.status = "FAILED"
              THEN /\ schedule_call' = [schedule_call EXCEPT
                          ![s].state = "returned",
                          ![s].results = results \o
                              [i \in 1..Len(remaining) |->
                                  [task_id |-> remaining[i], status |-> "SKIPPED",
                                   retry_count |-> 0]]]
                   /\ UNCHANGED task_run
              ELSE IF remaining # <<>>
              THEN /\ schedule_call' = [schedule_call EXCEPT
                          ![s].results = results,
                          ![s].started = Append(@, remaining[1])]
                   /\ task_run' = (remaining[1] :> NewTaskRun) @@ task_run
              ELSE /\ schedule_call' = [schedule_call EXCEPT
                          ![s].state = "returned", ![s].results = results]
                   /\ UNCHANGED task_run
    /\ UNCHANGED <<sched_tasks, semaphore, threads, other_task, enginevars, fixed>>

(* schedule_parallel(tasks, fail_fast=True): _execute_parallel_fail_fast   *)
(* makes the coroutine objects and asyncio.as_completed starts them all.   *)
schedule_fail_fast(s, tasks) ==
    /\ schedule_call[s].state = "none"
    /\ sched_tasks' = [t \in TaskIdsOf[s] |->
                          LET i == CHOOSE i \in 1..Len(tasks) : tasks[i].task_id = t
                          IN  tasks[i]] @@ sched_tasks
    /\ task_run' = [t \in TaskIdsOf[s] |-> NewTaskRun] @@ task_run
    /\ threads' = [t \in TaskIdsOf[s] |-> 0] @@ threads
    /\ schedule_call' = [schedule_call EXCEPT
                            ![s] = [state |-> "as_completed", mode |-> "fail_fast",
                                    tasks |-> [i \in 1..Len(tasks) |-> tasks[i].task_id],
                                    results |-> <<>>]]
    /\ UNCHANGED <<semaphore, other_task, enginevars, fixed>>

(* One turn of the loop over as_completed: the result of a task that is    *)
(* done is appended.  On a FAILED result the loop calls c.done() on the    *)
(* coroutine objects, which have no such attribute: AttributeError leaves  *)
(* the call (only CancelledError is caught) and no task is cancelled.      *)
(* Without a failure the call returns when every result is in.             *)
FailFastStep(s) ==
    /\ schedule_call[s].state = "as_completed"
    /\ \E t \in TaskIdsOf[s] :
          /\ task_run[t].at = "done"
          /\ \A i \in 1..Len(schedule_call[s].results) :
                 schedule_call[s].results[i].task_id # t
          /\ LET results == Append(schedule_call[s].results, ResultOf(t))
             IN  schedule_call' = [schedule_call EXCEPT
                     ![s].results = results,
                     ![s].state =
                         IF task_run[t].result.status = "FAILED" THEN "raised"
                         ELSE IF Len(results) = Len(schedule_call[s].tasks)
                              THEN "returned"
                              ELSE "as_completed"]
    /\ UNCHANGED <<sched_tasks, task_run, semaphore, threads, other_task,
                   enginevars, fixed>>

ModeNext ==
    \/ \E tasks \in TaskLists("sched-a"), stop_on_failure \in BOOLEAN :
            schedule_sequential("sched-a", tasks, stop_on_failure)
    \/ \E tasks \in TaskLists("sched-a") : schedule_fail_fast("sched-a", tasks)
    \/ \E t \in TaskIds : Acquire(t)
    \/ \E t \in TaskIds : Succeed(t)
    \/ \E t \in TaskIds : Fail(t)
    \/ \E t \in TaskIds : Wake(t)
    \/ SequentialStep("sched-a")
    \/ FailFastStep("sched-a")

ModeSpec == SchedInit /\ [][ModeNext]_vars

---------------------------------------------------------------------------
(* _execute_simple_mode as a function of the state it is given: the walk   *)
(* of the type's sequence from node i to the node at which the loop stops. *)
RECURSIVE _execute_simple_mode(_, _, _)
_execute_simple_mode(s, reg, i) ==
    LET seq == NodeSequence(s.workflow_type)
        s1  == RunNode(seq[i], s, reg)
    IN  IF is_paused(s1) \/ s1.status = "FAILED" \/ i = Len(seq)
        THEN s1
        ELSE _execute_simple_mode(s1, reg, i + 1)

(* The request a run was created from, read back from its state.           *)
RequestOf(s) ==
    [workflow_type |-> s.workflow_type, path |-> s.target_path,
     tool_ids |-> s.tool_ids]

IsPrefix(a, b) == Len(a) <= Len(b) /\ SubSeq(b, 1, Len(a)) = a

BagOfSeq(seq) ==
    [x \in {seq[i] : i \in 1..Len(seq)} |->
        Cardinality({i \in 1..Len(seq) : seq[i] = x})]

(* The run r is held by the engine before and after the step.              *)
Stays(r) == r \in DOMAIN workflows /\ r \in DOMAIN workflows'

StatusBefore(r) == heap[workflows[r].state].status

StatusAfter(r) == heap'[workflows'[r].state].status

(* The response just returned answers a resume call that found the run.    *)
ResumeReturned ==
    /\ response.op = "resume"
    /\ response.found
    /\ Known(response.workflow_id)

(* No other call was made between the call answered and its return.        *)
Undisturbed == response.call.seqno = ncalls

---------------------------------------------------------------------------
(* C1: terminal states are absorbing: once a run's status is SUCCESS,      *)
(* FAILED or CANCELLED, no step of pause, resume, cancel, execute or the   *)
(* walk they start changes the status of that run again.                   *)
C1_TerminalAbsorbing ==
    [][\A r \in RunIds :
          (Stays(r) /\ is_completed(StateOf(r)))
              => StatusAfter(r) = StatusBefore(r)]_vars

(* C2: every change of a run's status is a transition of the run-level     *)
(* diagram: PENDING->RUNNING; RUNNING->SUCCESS, FAILED, CANCELLED, PAUSED  *)
(* or RETRY; RETRY->RUNNING; PAUSED->RUNNING, and only in the step that is *)
(* a resume call; non-terminal->CANCELLED, and only in a cancel step.      *)
DiagramStep(r) ==
    LET a == StatusBefore(r)
        b == StatusAfter(r)
    IN  \/ a = b
        \/ a = "PENDING" /\ b = "RUNNING"
        \/ a = "RUNNING" /\ b \in {"SUCCESS", "FAILED", "PAUSED", "RETRY"}
        \/ a = "RETRY" /\ b = "RUNNING"
        \/ a = "PAUSED" /\ b = "RUNNING"
               /\ pc[r].op = "idle" /\ pc'[r].op = "resume"
        \/ a \in {"PENDING", "RUNNING", "RETRY", "PAUSED"} /\ b = "CANCELLED"
               /\ cancel(r)

C2_TransitionsFollowDiagram ==
    [][\A r \in RunIds : Stays(r) => DiagramStep(r)]_vars

(* C3: when resume(run_id) without a checkpoint id, called on a            *)
(* RELEASE_REGRESSION run that is PAUSED at the human-review node,         *)
(* returns with no other call made meanwhile, the run is at the finalize   *)
(* node with status SUCCESS.                                               *)
C3_ResumeReachesFinalize ==
    ( /\ ResumeReturned
      /\ Undisturbed
      /\ response.call.cp = NoId
      /\ response.call.pre_status = "PAUSED"
      /\ response.call.pre_node = "human_review"
      /\ StateOf(response.workflow_id).workflow_type = "RELEASE_REGRESSION" )
    => /\ response.status = "SUCCESS"
       /\ StateOf(response.workflow_id).current_node = "finalize"

(* C4: when resume returns for a run that was PAUSED, no other call made   *)
(* meanwhile, the multiset of the run's findings equals the multiset found *)
(* by one walk of the same request without a pause (the tools return the   *)
(* same findings on every invocation).                                     *)
C4_ResumeSameFindings ==
    ( /\ ResumeReturned
      /\ Undisturbed
      /\ response.call.pre_status = "PAUSED" )
    => LET s == StateOf(response.workflow_id)
           unpaused == _execute_simple_mode(
                           NewWorkflowState(s.workflow_id, RequestOf(s)),
                           registry, 1)
       IN  BagOfSeq(s.vulnerabilities) = BagOfSeq(unpaused.vulnerabilities)

(* C5: checkpoints are immutable: the status, node-result log, findings    *)
(* and current node a checkpoint holds are those the run had when the      *)
(* checkpoint was saved, whatever happened to the run since.               *)
Snapshot(s) == <<s.status, s.node_results, s.vulnerabilities, s.current_node>>

C5_CheckpointsImmutable ==
    \A r \in DOMAIN checkpoints :
        \A i \in 1..Len(checkpoints[r]) :
            Snapshot(heap[checkpoints[r][i].state])
                = Snapshot(savedAt[checkpoints[r][i].checkpoint_id])

(* C6: the node-result log is append-only: every step leaves the log a run *)
(* had as a prefix of the log it has; and when resume(run_id, c) returns   *)
(* for a checkpoint c of the run, the log the run had when c was saved is  *)
(* a prefix of the run's log.                                              *)
LogOf(r) == heap[workflows[r].state].node_results

LogAfter(r) == heap'[workflows'[r].state].node_results

C6_ResumeKeepsSavedLog ==
    [][ /\ \A r \in RunIds : Stays(r) => IsPrefix(LogOf(r), LogAfter(r))
        /\ ( /\ response'.op = "resume"
             /\ response'.found
             /\ response'.call.cp # NoId )
           => IsPrefix(savedAt'[response'.call.cp].node_results,
                       LogAfter(response'.workflow_id)) ]_vars

C6_Witness ==
    /\ ResumeReturned
    /\ response.call.cp # NoId
    /\ savedAt[response.call.cp].node_results # <<>>
    /\ Len(LogOf(response.workflow_id))
           > Len(savedAt[response.call.cp].node_results)

(* C7: a resume call on a run that has a row in the database is answered   *)
(* by continuing the run, also when the engine no longer holds the run.    *)
C7_PersistedRunResumable ==
    (response.op = "resume" /\ response.workflow_id \in DOMAIN db)
        => response.found

(* C8: a cancel step sets the status of a run that is not completed to     *)
(* CANCELLED and changes nothing else of it, changes nothing of a run that *)
(* is completed, and a second cancel would change nothing of the result.   *)
C8_CancelIdempotent ==
    [][\A r \in RunIds :
          (Known(r) /\ cancel(r))
              => LET before == StateOf(r)
                     after  == heap'[workflows'[r].state]
                 IN  /\ is_completed(before) => after = before
                     /\ ~is_completed(before)
                            => after = [before EXCEPT !.status = "CANCELLED"]
                     /\ cancel_state(after) = after]_vars

C8_Witness ==
    \E r \in DOMAIN workflows :
        /\ StateOf(r).status = "CANCELLED"
        /\ StateOf(r).requires_human_review
        /\ r \in DOMAIN db
        /\ db[r].status = "CANCELLED"

(* C9: when the status of a run is CANCELLED between two nodes of its      *)
(* walk, the walker's next step runs no node function (the log does not    *)
(* grow) and leaves the status CANCELLED.                                  *)
C9_CancelStopsWalk ==
    [][\A r \in RunIds :
          ( /\ Stays(r)
            /\ pc[r].op # "idle"
            /\ pc[r].idx > 1
            /\ StatusBefore(r) = "CANCELLED"
            /\ WalkStep(r) )
          => /\ LogAfter(r) = LogOf(r)
             /\ StatusAfter(r) = "CANCELLED"]_vars

(* C10: when execute returns, no other call made meanwhile, a status of    *)
(* SUCCESS comes with an empty error list, and a non-empty error list      *)
(* comes with the status FAILED.                                           *)
C10_SuccessHasNoErrors ==
    ( /\ response.op = "execute"
      /\ Undisturbed
      /\ Known(response.workflow_id) )
    => LET s == StateOf(response.workflow_id)
       IN  /\ s.status = "SUCCESS" => s.errors = <<>>
           /\ s.errors # <<>> => s.status = "FAILED"

(* C11: when a node function fails with an exception (the node result it   *)
(* appends has status FAILED), the run's status is FAILED when it returns, *)
(* the walk ends at that node, and the findings of earlier nodes are kept. *)
FindingsOf(r) == heap[workflows[r].state].vulnerabilities

FindingsAfter(r) == heap'[workflows'[r].state].vulnerabilities

C11_NodeFailureFailsRun ==
    [][\A r \in RunIds :
          ( /\ Stays(r)
            /\ WalkStep(r)
            /\ Len(LogAfter(r)) > Len(LogOf(r))
            /\ LogAfter(r)[Len(LogAfter(r))].status = "FAILED" )
          => /\ StatusAfter(r) = "FAILED"
             /\ pc'[r].op = "idle"
             /\ IsPrefix(FindingsOf(r), FindingsAfter(r))]_vars

(* C12: a scan node that completes over a non-empty tool list records one  *)
(* tool result per tool, and its node result is SUCCESS when at least one  *)
(* tool succeeded and FAILED when every tool failed.                       *)
ScanResultAsClaimed(s, result) ==
    ( /\ result.node_type \in {"scan", "parallel_scan"}
      /\ result.error = None
      /\ s.tool_ids # <<>> )
    => /\ Len(result.tool_results) = Len(s.tool_ids)
       /\ result.status =
              IF \E i \in 1..Len(result.tool_results) :
                     result.tool_results[i].status = "SUCCESS"
              THEN "SUCCESS" ELSE "FAILED"

C12_ScanNodeStatus ==
    \A r \in DOMAIN workflows :
        \A i \in 1..Len(LogOf(r)) : ScanResultAsClaimed(StateOf(r), LogOf(r)[i])

---------------------------------------------------------------------------
(* C13: the engine enforces the per-workflow timeout: a run whose elapsed  *)
(* time passed its workflow timeout during the walk ends, when the walk    *)
(* ends, FAILED with the reason "workflow timeout", and at least one       *)
(* checkpoint of the run exists.                                           *)
C13_TimeoutFailsRun ==
    \A r \in overdue :
        (Known(r) /\ pc[r].op = "idle")
            => /\ StateOf(r).status = "FAILED"
               /\ \E i \in 1..Len(StateOf(r).errors) :
                      StateOf(r).errors[i] = <<"workflow timeout">>
               /\ CheckpointIds(r) # {}

---------------------------------------------------------------------------
(* C14: a run created with an empty tool_ids list has, after its           *)
(* initialize node, the ids of all registered tools as its tool_ids; when  *)
(* no tool is registered, the run ends FAILED with an error recorded and   *)
(* no findings.                                                            *)
C14_EmptyToolIds ==
    [][\A r \in RunIds :
          ( /\ Stays(r) /\ WalkStep(r)
            /\ StateOf(r).tool_ids = <<>> )
          => /\ pc[r].idx = 1
                    => heap'[workflows'[r].state].tool_ids = get_tool_ids(registry)
             /\ (registry = <<>> /\ pc'[r].op = "idle")
                    => /\ StatusAfter(r) = "FAILED"
                       /\ heap'[workflows'[r].state].errors # <<>>
                       /\ FindingsAfter(r) = <<>>]_vars

---------------------------------------------------------------------------
---------------------------------------------------------------------------
(* C16: a storage failure does not fail the run: the response of the       *)
(* facade's execute carries the id of the run the call created and the     *)
(* status the engine reached for it, and the run was executed, whether or  *)
(* not initializing the storage or saving the run failed.                  *)
C16_StorageFailureKeepsRun ==
    ( /\ response.op = "execute"
      /\ Known(response.call.ref) )
    => /\ response.workflow_id = response.call.ref
       /\ response.status = StateOf(response.call.ref).status
       /\ StateOf(response.call.ref).node_results # <<>>

---------------------------------------------------------------------------
(* The tasks of scheduler s whose function is executing: in the task's     *)
(* coroutine, or in a thread an abandoned attempt left behind.             *)
Executing(s) ==
    {t \in DOMAIN task_run :
        /\ sched_tasks[t].sched = s
        /\ task_run[t].at = "running" \/ threads[t] > 0}

(* C17: for one scheduler, the number of tasks whose function is executing *)
(* is at every moment at most max_parallel_tools, whatever the tasks and   *)
(* the pattern of failures, timeouts and retries.                          *)
C17_ParallelismCapped ==
    \A s \in SchedIds : Cardinality(Executing(s)) <= config.max_parallel_tools

---------------------------------------------------------------------------
(* C18: a task's function is attempted at most max_retries + 1 times; a    *)
(* SUCCESS result comes at the first successful attempt and its            *)
(* retry_count is the number of failed attempts before it; a FAILED result *)
(* comes only after max_retries + 1 failed or timed-out attempts and its   *)
(* retry_count is max_retries.                                             *)
C18_RetryBound ==
    \A t \in DOMAIN task_run :
        LET run == task_run[t]
            task == sched_tasks[t]
        IN  /\ run.attempts <= task.max_retries + 1
            /\ (run.at = "done") = (run.result # NoResult)
            /\ run.result.status = "SUCCESS"
                   => /\ run.result.retry_count = run.attempts - 1
                      /\ run.retry_count = run.attempts - 1
            /\ run.result.status = "FAILED"
                   => /\ run.attempts = task.max_retries + 1
                      /\ run.retry_count = run.attempts
                      /\ run.result.retry_count = task.max_retries

(* A task that failed once, then succeeded, and one whose every attempt    *)
(* failed, with a retry allowed.                                           *)
C18_Witness ==
    /\ \E t \in DOMAIN task_run :
          /\ task_run[t].result = TaskResult("SUCCESS", 1)
          /\ task_run[t].attempts = 2
    /\ \E t \in DOMAIN task_run :
          /\ sched_tasks[t].max_retries = MaxRetries
          /\ task_run[t].result = TaskResult("FAILED", MaxRetries)

---------------------------------------------------------------------------
(* C19: once cancel_all() was called while a scheduler's tasks were        *)
(* running, every task it cancelled is in the results the scheduler        *)
(* returns, as a TaskResult with status CANCELLED, and its function is not *)
(* attempted again.                                                        *)
C19_CancelledInResults ==
    \A t \in DOMAIN task_run :
        task_run[t].at = "cancelled"
            => LET results == schedule_call[sched_tasks[t].sched].results
               IN  /\ t \in DOMAIN results
                   /\ results[t].status = "CANCELLED"

---------------------------------------------------------------------------
(* C20: cancel_all() on one scheduler cancels only that scheduler's tasks: *)
(* the tasks of the other scheduler, its schedule_parallel call and every  *)
(* other task of the event loop are left as they were.                     *)
C20_CancelScopedToScheduler ==
    [][\A s \in SchedIds :
          cancel_all(s)
              => /\ \A t \in DOMAIN task_run :
                        sched_tasks[t].sched # s => task_run'[t] = task_run[t]
                 /\ \A x \in SchedIds \ {s} : schedule_call'[x] = schedule_call[x]
                 /\ other_task' = other_task]_vars

---------------------------------------------------------------------------
(* C22: schedule_parallel with fail_fast = false returns only when every   *)
(* submitted task has finished, and what it returns is exactly one         *)
(* TaskResult per submitted task, the task's own, with status SUCCESS or   *)
(* FAILED, whichever of the tasks failed.                                  *)
C22_ParallelAllReturnsAll ==
    \A s \in SchedIds :
        schedule_call[s].state = "returned"
            => /\ DOMAIN schedule_call[s].results = TaskIdsOf[s]
               /\ \A t \in TaskIdsOf[s] :
                      /\ task_run[t].at = "done"
                      /\ schedule_call[s].results[t] = task_run[t].result
                      /\ schedule_call[s].results[t].status \in {"SUCCESS", "FAILED"}

(* A call that returned one SUCCESS and one FAILED result.                 *)
C22_Witness ==
    /\ schedule_call # <<>>
    /\ schedule_call["sched-a"].state = "returned"
    /\ schedule_call["sched-a"].results["t1"].status = "SUCCESS"
    /\ schedule_call["sched-a"].results["t2"].status = "FAILED"

---------------------------------------------------------------------------
(* C21: schedule_parallel with fail_fast = true returns normally as soon   *)
(* as the first task has ended FAILED: the results hold that result, and   *)
(* every task not finished by then is cancelled.                           *)
C21_FailFastReturns ==
    \A s \in SchedIds :
        ( /\ "mode" \in DOMAIN schedule_call[s]
          /\ schedule_call[s].mode = "fail_fast"
          /\ \E i \in 1..Len(schedule_call[s].results) :
                 schedule_call[s].results[i].status = "FAILED" )
        => /\ schedule_call[s].state = "returned"
           /\ \A t \in TaskIdsOf[s] : ~Unfinished(t)

---------------------------------------------------------------------------
(* C23: schedule_sequential starts the tasks in descending order of        *)
(* priority, in list order among equal priorities, whatever the order of   *)
(* the list it is given.                                                   *)
C23_SequentialByPriority ==
    \A s \in SchedIds :
        ( /\ "mode" \in DOMAIN schedule_call[s]
          /\ schedule_call[s].mode = "sequential" )
        => LET started == schedule_call[s].started
           IN  \A i, j \in 1..Len(started) :
                   i < j => TaskPriority[sched_tasks[started[i]].priority]
                               >= TaskPriority[sched_tasks[started[j]].priority]

---------------------------------------------------------------------------
(* C30: create_workflow returns an id no run the engine holds has, and     *)
(* adds exactly one entry to the run map: status PENDING, the workflow     *)
(* type, target and tool_ids it was given, an empty node-result log and an *)
(* empty finding list; the entries and state objects of the other runs and *)
(* all checkpoints are unchanged.                                          *)
C30_CreateAddsOneRun ==
    [][\A req \in Requests :
          create_workflow(req)
              => LET workflow_id == RunIdOrder[nruns + 1]
                     s == heap'[workflows'[workflow_id].state]
                 IN  /\ workflow_id \notin DOMAIN workflows
                     /\ DOMAIN workflows' = DOMAIN workflows \cup {workflow_id}
                     /\ s.status = "PENDING"
                     /\ s.workflow_type = req.workflow_type
                     /\ s.target_path = req.path
                     /\ s.tool_ids = req.tool_ids
                     /\ s.node_results = <<>>
                     /\ s.vulnerabilities = <<>>
                     /\ \A r \in DOMAIN workflows :
                            /\ workflows'[r] = workflows[r]
                            /\ heap'[workflows'[r].state] = heap[workflows[r].state]
                     /\ checkpoints' = checkpoints]_vars

(* A second run, just created, beside a first that was walked and has      *)
(* checkpoints.                                                            *)
C30_Witness ==
    /\ nruns = 2
    /\ Known("run-a") /\ Known("run-b")
    /\ StateOf("run-b").status = "PENDING"
    /\ StateOf("run-b").node_results = <<>>
    /\ StateOf("run-a").node_results # <<>>
    /\ CheckpointIds("run-a") # {}

---------------------------------------------------------------------------
(* The entries of kind human-review with status PAUSED in a node log.      *)
HumanReviewEntries(log) ==
    {i \in 1..Len(log) : log[i].node_type = "human_review" /\ log[i].status = "PAUSED"}

(* C28: in every reachable state, resumed runs included, the node-result   *)
(* log of a run whose requires_human_review is true has exactly one entry  *)
(* of kind human-review with status PAUSED.                                *)
C28_OneHumanReviewEntry ==
    \A r \in DOMAIN workflows :
        StateOf(r).requires_human_review
            => Cardinality(HumanReviewEntries(LogOf(r))) = 1

---------------------------------------------------------------------------
(* C29: in every reachable state, resumed runs included, no two findings   *)
(* in a run's finding list have the same finding id.                       *)
C29_FindingIdsUnique ==
    \A r \in DOMAIN workflows :
        \A i, j \in 1..Len(FindingsOf(r)) :
            i # j => FindingsOf(r)[i].vulnerability_id # FindingsOf(r)[j].vulnerability_id

(* C24: in a parallel-scan node with at least two tools and a concurrency  *)
(* cap of at least two the tools run concurrently: a scan that has begun   *)
(* comes to a state in which two of its tools are executing at the same    *)
(* time.                                                                   *)
C24_ToolsRunConcurrently ==
    ( /\ tool_exec.state = "scanning"
      /\ Len(tool_exec.tool_ids) >= 2
      /\ config.max_parallel_tools >= 2 )
        ~> (Cardinality(tool_exec.executing) >= 2)

C27_RunStagesInOrder ==
    \A i \in 1..Len(scan_call.runs) :
        LET r == scan_call.runs[i]
            calls == r.calls
            order == <<"validate_input", "execute", "parse_output">>
            typed == [validate_input |-> "InputValidationError",
                      execute |-> "ExecutionError",
                      parse_output |-> "ParseError"]
            last == calls[Len(calls)]
        IN  /\ Len(calls) \in 1..Len(order)
            /\ \A k \in 1..Len(calls) : calls[k].stage = order[k]
            /\ \A k \in 1..(Len(calls) - 1) : calls[k].outcome \in {"True", "ok"}
            /\ CASE last.outcome \in {"True", "ok"} ->
                        /\ Len(calls) = Len(order)
                        /\ r.raised = None
                 [] last.outcome = "Exception" -> r.raised = "AdapterError"
                 [] OTHER -> r.raised = typed[last.stage]

(* A run whose execute stage raised an untyped exception after             *)
(* validate_input returned true: parse_output was not called and the       *)
(* adapter error left run.                                                 *)
C27_Witness ==
    /\ Len(scan_call.runs) = 1
    /\ Len(scan_call.runs[1].calls) = 2
    /\ scan_call.runs[1].calls[2].outcome = "Exception"
    /\ scan_call.runs[1].raised = "AdapterError"

(* C31: the template registry holds exactly four templates, one for each   *)
(* of CODE_COMMIT, DEPENDENCY_UPDATE, EMERGENCY_VULN and                   *)
(* RELEASE_REGRESSION: list_templates returns these four, get_template(k)  *)
(* returns a template whose workflow type is k for each of them, and       *)
(* get_template(CUSTOM) raises an error.                                   *)
C31_FourTemplates ==
    LET kinds == {"CODE_COMMIT", "DEPENDENCY_UPDATE", "EMERGENCY_VULN",
                  "RELEASE_REGRESSION"}
    IN  /\ fn_call.fn = "list_templates" =>
               /\ Len(fn_call.result) = Cardinality(kinds)
               /\ {fn_call.result[i].workflow_type : i \in 1..Len(fn_call.result)} = kinds
        /\ fn_call.fn = "get_template" =>
               IF fn_call.args[1] \in kinds
               THEN /\ fn_call.result.raised = None
                    /\ fn_call.result.template.workflow_type = fn_call.args[1]
               ELSE fn_call.result.raised # None

(* get_template(DEPENDENCY_UPDATE) has returned a template.                *)
C31_Witness ==
    /\ fn_call.fn = "get_template"
    /\ fn_call.args = <<"DEPENDENCY_UPDATE">>
    /\ fn_call.result.raised = None

(* C32: the progress that status reports for a run is within 0..100, is    *)
(* 100 when the run's status is SUCCESS, and never decreases from one      *)
(* status call to a later one while the engine holds the run, across       *)
(* pause, cancel and resume too.                                           *)
C32_ProgressMonotone ==
    [][ \A r \in DOMAIN workflows' :
            /\ status_progress(StateOf(r)') \in 0..100
            /\ StateOf(r)'.status = "SUCCESS" => status_progress(StateOf(r)') = 100
            /\ r \in DOMAIN workflows =>
                   status_progress(StateOf(r)') >= status_progress(StateOf(r)) ]_vars

(* C33: each call of a node function appends exactly one NodeResult to the *)
(* run's node-result log, on its success path and on its failure path, for *)
(* every node kind and every state the engine passes to it.                *)
C33_OneResultPerNode ==
    [][ \A r \in RunIds :
            WalkStep(r) =>
                Len(heap'[pc[r].ref].node_results)
                    = Len(heap[pc[r].ref].node_results) + 1 ]_vars

(* A run whose initialize node took its success path and whose scan node   *)
(* took its failure path: two node results.                                *)
C33_Witness ==
    \E r \in DOMAIN workflows :
        /\ Len(StateOf(r).node_results) = 2
        /\ StateOf(r).node_results[1].status = "SUCCESS"
        /\ StateOf(r).node_results[2].status = "FAILED"

C35_CheckpointCap ==
    [][ /\ \A r \in DOMAIN checkpoints' :
              /\ Len(checkpoints'[r]) <= config.max_checkpoints
              /\ \A i, j \in 1..Len(checkpoints'[r]) :
                     i < j => checkpoints'[r][i].checkpoint_id[2]
                                  < checkpoints'[r][j].checkpoint_id[2]
        /\ \A r \in RunIds :
              (WalkStep(r) /\ config.enabled /\ config.auto_save) =>
                  LET old == IF r \in DOMAIN checkpoints THEN checkpoints[r] ELSE <<>>
                      new == checkpoints'[r]
                      dropped == Len(old) + 1 - Len(new)
                  IN  /\ Len(new) = IF Len(old) < config.max_checkpoints
                                    THEN Len(old) + 1 ELSE config.max_checkpoints
                      /\ new[Len(new)].checkpoint_id = <<r, nsaved[r] + 1>>
                      /\ \A i \in 1..(Len(new) - 1) : new[i] = old[i + dropped]
                      /\ \A q \in RunIds \ {r} :
                             /\ q \in DOMAIN checkpoints' <=> q \in DOMAIN checkpoints
                             /\ q \in DOMAIN checkpoints =>
                                    checkpoints'[q] = checkpoints[q] ]_vars

(* A run has had more saves than max_checkpoints and holds max_checkpoints *)
(* checkpoints, while the other run holds checkpoints too.                 *)
C35_Witness ==
    \E r \in DOMAIN checkpoints :
        /\ nsaved[r] > config.max_checkpoints
        /\ Len(checkpoints[r]) = config.max_checkpoints
        /\ \E q \in DOMAIN checkpoints : q # r /\ Len(checkpoints[q]) >= 1

(* C36: the validate node keeps exactly the findings whose confidence      *)
(* score is at least the threshold of 0.3, in their original order, and    *)
(* drops the others; the kept count and the dropped count it records add   *)
(* up to the number of findings before the node.                           *)
C36_ValidateKeepsConfident ==
    fn_call.fn = "validation_node" =>
        LET before == fn_call.args[1]
            confident(v) == 10 * v.confidence >= ConfidenceThreshold
            output == fn_call.result.node_results[1].output
        IN  /\ fn_call.result.vulnerabilities = SelectSeq(before, confident)
            /\ output[2] + output[3] = Len(before)

(* C37: in schedule_sequential with stop_on_failure, after the first       *)
(* FAILED result no later task's function is invoked, each remaining task  *)
(* gets exactly one SKIPPED result, and the result list has one entry per  *)
(* input task, in input order.                                             *)
C37_StopOnFailureSkips ==
    \A s \in SchedIds :
        LET call == schedule_call[s]
        IN  (call.state \in {"sequential", "returned"} /\ call.mode = "sequential"
             /\ call.stop_on_failure) =>
                /\ Len(call.results) <= Len(call.tasks)
                /\ call.state = "returned" => Len(call.results) = Len(call.tasks)
                /\ \A j \in 1..Len(call.results) : call.results[j].task_id = call.tasks[j]
                /\ \A i \in 1..Len(call.results) :
                       call.results[i].status = "FAILED" =>
                           /\ Len(call.results) = Len(call.tasks)
                           /\ \A j \in (i + 1)..Len(call.tasks) :
                                  /\ call.results[j].status = "SKIPPED"
                                  /\ call.tasks[j] \notin DOMAIN task_run
                                  /\ \A k \in 1..Len(call.started) :
                                         call.started[k] # call.tasks[j]

(* A call with stop_on_failure has returned: its first task failed and the *)
(* second was skipped.                                                     *)
C37_Witness ==
    \E s \in SchedIds :
        /\ schedule_call[s].state = "returned"
        /\ schedule_call[s].mode = "sequential"
        /\ schedule_call[s].stop_on_failure
        /\ schedule_call[s].results[1].status = "FAILED"
        /\ Len(schedule_call[s].results) = 2
        /\ schedule_call[s].results[2].status = "SKIPPED"

(* The invocations of task t's function that are running: the one the      *)
(* task's coroutine awaits, and those abandoned attempts left in threads.  *)
Invocations(t) ==
    (IF task_run[t].at = "running" THEN 1 ELSE 0) + threads[t]

(* C38: when an attempt exceeds the task's timeout, the execution of its   *)
(* function is stopped before the retry starts: one task never has two     *)
(* invocations of its function running at the same time, for coroutine     *)
(* functions and for plain functions in the thread pool alike.             *)
C38_OneInvocationPerTask ==
    \A t \in DOMAIN task_run : Invocations(t) <= 1

(* The tasks of scheduler s inside `async with self.semaphore`.            *)
Holding(s) ==
    {t \in DOMAIN task_run : sched_tasks[t].sched = s /\ task_run[t].at = "running"}

(* C39: a task waiting out its retry delay holds no concurrency slot, so   *)
(* another waiting task can acquire it during the delay; every slot taken  *)
(* for an attempt is released when the attempt ends (success, exception or *)
(* timeout), so the free slots are back at the cap when no task is         *)
(* executing.                                                              *)
C39_SlotsHeldOnlyWhileRunning ==
    \A s \in SchedIds :
        /\ semaphore[s] + Cardinality(Holding(s)) = config.max_parallel_tools
        /\ Holding(s) = {} => semaphore[s] = config.max_parallel_tools
        /\ \A t \in TaskIdsOf[s] \cap DOMAIN task_run :
               (/\ task_run[t].at = "waiting"
                /\ Cardinality(Holding(s)) < config.max_parallel_tools)
                   => ENABLED Acquire(t)

(* With one slot, a task runs while another task of the same scheduler,    *)
(* which had the slot for its failed attempt, waits out its retry delay.   *)
C39_Witness ==
    \E s \in SchedIds : \E t1, t2 \in TaskIdsOf[s] \cap DOMAIN task_run :
        /\ config.max_parallel_tools = 1
        /\ task_run[t1].at = "sleeping"
        /\ task_run[t1].attempts = 1
        /\ task_run[t2].at = "running"
        /\ semaphore[s] = 0

(* The FAILED entries of a run's node log.                                 *)
FailedResults(s) ==
    SelectSeq(s.node_results, LAMBDA result : result.status = "FAILED")

(* C40: each failed node contributes exactly one entry to the run's error  *)
(* list: the length of errors equals the number of FAILED node results.    *)
C40_OneErrorPerFailedNode ==
    \A r \in DOMAIN workflows :
        Len(StateOf(r).errors) = Len(FailedResults(StateOf(r)))

=============================================================================
